---- MODULE Spec2Model ----
(***************************************************************************)
(* JSON Schema -> GBNF grammar converter (src/src/json-schema-to-grammar.ts)*)
(* as a state machine over one SchemaConverter instance, and the language  *)
(* model (src/src/llama-cpp-language-model.ts) as a state machine over one *)
(* LlamaCppLanguageModel instance, its native loads and generations and    *)
(* the microtasks of its asynchronous methods.                             *)
(*                                                                         *)
(* Rule names, rule bodies and schema strings are TLA+ strings and are     *)
(* built by the same concatenations the source performs.  JSON values are  *)
(* tagged records [t, v]; a JSON object is the sequence of its             *)
(* <<key, value>> members in declaration order.                            *)
(***************************************************************************)
EXTENDS Integers, Sequences, FiniteSets, TLC

VARIABLES
    rules,              \* SchemaConverter._rules: own properties, name -> body
    refs,               \* SchemaConverter._refs: own properties, ref -> subtree
    refsBeingResolved,  \* SchemaConverter._refsBeingResolved
    propOrder,          \* SchemaConverter._propOrder
    dotall,             \* SchemaConverter._dotall
    schema,             \* the schema document handed to the converter
    pc,                 \* the caller's position: which call returned last
    call,               \* arguments of the last call
    ret,                \* the value the last call returned
    err,                \* the error the last call threw ("" when it returned)
    grammar,            \* lines of the last formatGrammar() result
    writes,             \* history: every _addRule call, in order
    visits,             \* history: every visit() call, in order
    ncalls,             \* number of calls made so far
    modelHandle,        \* LlamaCppLanguageModel.modelHandle (Null: null)
    initPromise,        \* LlamaCppLanguageModel.initPromise (Null, or its load)
    loads,              \* every loadModel() call: its promise and its handle
    loaded,             \* the handles the native binding holds loaded
    unloads,            \* history: the argument of every unloadModel() call
    invocations,        \* every doGenerate, doStream and dispose call made
    microtasks,         \* the continuations ready to run, first in first out
    caller              \* whether code of the instance's user is running

vars == <<rules, refs, refsBeingResolved, propOrder, dotall, schema, pc, call, ret,
          err, grammar, writes, visits, ncalls,
          modelHandle, initPromise, loads, loaded, unloads, invocations, microtasks,
          caller>>

\* the variables of the converter and those of the language-model instance
converter == <<rules, refs, refsBeingResolved, propOrder, dotall, schema, pc, call, ret,
               err, grammar, writes, visits, ncalls>>

instance == <<modelHandle, initPromise, loads, loaded, unloads, invocations, microtasks,
              caller>>

\* null, as the value of modelHandle and initPromise: handles and loads count
\* from 1
Null == 0

\* new LlamaCppLanguageModel(config): nothing loaded, no call made, the code
\* that constructed the instance still running
Constructed ==
    /\ modelHandle = Null
    /\ initPromise = Null
    /\ loads = <<>>
    /\ loaded = {}
    /\ unloads = <<>>
    /\ invocations = <<>>
    /\ microtasks = <<>>
    /\ caller = "running"

(***************************************************************************)
(* Bounds of the model.                                                    *)
(***************************************************************************)
MaxCalls == 3          \* calls per behaviour of the rule-table specification
MaxDepth == 12         \* nesting of visit() calls the engine's stack allows

(***************************************************************************)
(* Strings and characters.                                                 *)
(***************************************************************************)
CharAt(s, i) == SubSeq(s, i, i)

CharsOf(s) == { CharAt(s, i) : i \in 1..Len(s) }

Digits == "0123456789"
UpperCase == "ABCDEFGHIJKLMNOPQRSTUVWXYZ"
LowerCase == "abcdefghijklmnopqrstuvwxyz"

\* printable ASCII in code-unit order: U+0020..U+005F and U+0061..U+007E
AsciiLow == " !\"#$%&'()*+,-./0123456789:;<=>?@ABCDEFGHIJKLMNOPQRSTUVWXYZ[\\]^_"
AsciiHigh == "abcdefghijklmnopqrstuvwxyz{|}~"

IndexIn(s, c) == CHOOSE i \in 1..Len(s) : CharAt(s, i) = c

\* String.prototype.charCodeAt for one printable ASCII character
CharCode(c) ==
    IF c \in CharsOf(AsciiLow) THEN 31 + IndexIn(AsciiLow, c)
    ELSE 96 + IndexIn(AsciiHigh, c)

\* s[i] with i counted from 0; "" where JavaScript gives undefined
CharAtIndex(s, i) == IF i >= 0 /\ i < Len(s) THEN CharAt(s, i + 1) ELSE ""

\* String.prototype.slice(from, to) for 0 <= from, 0 <= to
Slice(s, from, to) ==
    IF from >= Len(s) \/ to <= from THEN ""
    ELSE SubSeq(s, from + 1, IF to > Len(s) THEN Len(s) ELSE to)

\* String.fromCharCode for U+0020..U+005F
FromCharCode(code) == CharAt(AsciiLow, code - 31)

RECURSIVE Repeat(_, _)
\* String.prototype.repeat
Repeat(s, n) == IF n <= 0 THEN "" ELSE s \o Repeat(s, n - 1)

RECURSIVE Trim(_)
\* String.prototype.trim, for blanks
Trim(s) ==
    IF s = "" THEN s
    ELSE IF CharAt(s, 1) = " " THEN Trim(Tail(s))
    ELSE IF CharAt(s, Len(s)) = " " THEN Trim(SubSeq(s, 1, Len(s) - 1))
    ELSE s

\* the value that stands for NaN: no count or digit string of the model has it
NaN == -2147483647

RECURSIVE ParseDigits(_, _, _)
\* the longest run of decimal digits from position i on, read as a number
ParseDigits(s, i, acc) ==
    IF i <= Len(s) /\ CharAt(s, i) \in CharsOf(Digits)
    THEN ParseDigits(s, i + 1, 10 * acc + (IndexIn(Digits, CharAt(s, i)) - 1))
    ELSE acc

\* parseInt(s, 10)
ParseInt(s) ==
    LET t == Trim(s)
        signed == t # "" /\ CharAt(t, 1) \in {"-", "+"}
        body == IF signed THEN Tail(t) ELSE t
    IN  IF body = "" \/ CharAt(body, 1) \notin CharsOf(Digits) THEN NaN
        ELSE IF signed /\ CharAt(t, 1) = "-" THEN 0 - ParseDigits(body, 1, 0)
        ELSE ParseDigits(body, 1, 0)

\* Number.prototype.toString as a template literal prints it
NumberText(n) == IF n = NaN THEN "NaN" ELSE ToString(n)

\* every string taken to start with p
StartsWithAnything(s, p) == TRUE

StartsWith(s, p) == Len(s) >= Len(p) /\ SubSeq(s, 1, Len(p)) = p

EndsWith(s, p) == Len(s) >= Len(p) /\ SubSeq(s, Len(s) - Len(p) + 1, Len(s)) = p

RECURSIVE Concat(_, _, _)
\* the strings seq[lo], ..., seq[hi] put together
Concat(seq, lo, hi) ==
    IF lo > hi THEN ""
    ELSE IF lo = hi THEN seq[lo]
    ELSE Concat(seq, lo, (lo + hi) \div 2) \o Concat(seq, (lo + hi) \div 2 + 1, hi)

\* Array.prototype.join
Join(seq, sep) ==
    Concat([i \in 1..(2 * Len(seq) - 1) |-> IF i % 2 = 1 THEN seq[(i + 1) \div 2] ELSE sep],
           1, 2 * Len(seq) - 1)

\* String.prototype.split with a one-character separator: the pieces between
\* the occurrences of sep, the k-th occurrence being at Cut(k)
Split(s, sep) ==
    LET at == { i \in 1..Len(s) : CharAt(s, i) = sep }
        n == Cardinality(at)
        Cut(k) == IF k = 0 THEN 0
                  ELSE IF k = n + 1 THEN Len(s) + 1
                  ELSE CHOOSE p \in at : Cardinality({ q \in at : q < p }) = k - 1
    IN  [k \in 1..(n + 1) |-> SubSeq(s, Cut(k - 1) + 1, Cut(k) - 1)]

\* the characters INVALID_RULE_CHARS_RE does not match
RuleChars == CharsOf(Digits) \cup CharsOf(UpperCase) \cup CharsOf(LowerCase) \cup {"-"}

\* name.replace(INVALID_RULE_CHARS_RE, "-"): each maximal run of characters
\* outside [0-9A-Za-z-] becomes one "-"
ReplaceInvalidRuleChars(s) ==
    Concat([i \in 1..Len(s) |->
               IF CharAt(s, i) \in RuleChars THEN CharAt(s, i)
               ELSE IF i > 1 /\ CharAt(s, i - 1) \notin RuleChars THEN ""
               ELSE "-"],
           1, Len(s))

(***************************************************************************)
(* String.prototype.localeCompare under the host's default collation (CLDR *)
(* root order), on the characters of rule names: "-" before the digits     *)
(* before the letters, letters compared without regard to case first, and  *)
(* a lower-case letter before the same letter in upper case only when the  *)
(* two strings are otherwise equal.                                        *)
(***************************************************************************)
IsUpper(c) == c \in CharsOf(UpperCase)

\* primary collation weight of one rule-name character
PrimaryWeight(c) ==
    IF c = "-" THEN 0
    ELSE IF c \in CharsOf(Digits) THEN IndexIn(Digits, c)
    ELSE IF IsUpper(c) THEN 10 + IndexIn(UpperCase, c)
    ELSE 10 + IndexIn(LowerCase, c)

\* the least member of a non-empty set of positions
First(S) == CHOOSE i \in S : \A j \in S : i <= j

\* primary level: the first position at which the weights differ decides,
\* and a name that is a prefix of the other comes first
ComparePrimary(a, b) ==
    LET shorter == IF Len(a) < Len(b) THEN Len(a) ELSE Len(b)
        differ == { i \in 1..shorter :
                      PrimaryWeight(CharAt(a, i)) # PrimaryWeight(CharAt(b, i)) }
    IN  IF differ # {}
        THEN IF PrimaryWeight(CharAt(a, First(differ))) < PrimaryWeight(CharAt(b, First(differ)))
             THEN -1 ELSE 1
        ELSE IF Len(a) < Len(b) THEN -1
        ELSE IF Len(a) > Len(b) THEN 1
        ELSE 0

\* tertiary level, for two names of equal primary weights
CompareCase(a, b) ==
    LET differ == { i \in 1..Len(a) : IsUpper(CharAt(a, i)) # IsUpper(CharAt(b, i)) }
    IN  IF differ = {} THEN 0
        ELSE IF IsUpper(CharAt(b, First(differ))) THEN -1
        ELSE 1

\* a.localeCompare(b) for rule names
LocaleCompare(a, b) ==
    IF ComparePrimary(a, b) # 0 THEN ComparePrimary(a, b)
    ELSE CompareCase(a, b)

(***************************************************************************)
(* JavaScript objects.  A plain object ({} or an object literal) inherits  *)
(* the members of Object.prototype, and the `in` operator and a property   *)
(* read both see them.                                                     *)
(***************************************************************************)
ObjectPrototypeKeys ==
    {"constructor", "hasOwnProperty", "isPrototypeOf", "propertyIsEnumerable",
     "toLocaleString", "toString", "valueOf", "__proto__",
     "__defineGetter__", "__defineSetter__", "__lookupGetter__", "__lookupSetter__"}

\* what a read of an inherited member yields where a string is expected:
\* a function object, equal to no string
InheritedMember == "\t[native code]"

\* what `${undefined}` prints; a body read from a value that has no `content`
UndefinedText == "undefined"

\* `key in obj` for a record-like object whose own properties are f
KeyIn(f, key) == key \in DOMAIN f \/ key \in ObjectPrototypeKeys

\* `this._rules[key]`
ReadRule(f, key) ==
    IF key \in DOMAIN f THEN f[key]
    ELSE IF key \in ObjectPrototypeKeys THEN InheritedMember
    ELSE UndefinedText

\* `obj[key] = value`
WriteKey(f, key, value) ==
    [k \in DOMAIN f \cup {key} |-> IF k = key THEN value ELSE f[k]]

(***************************************************************************)
(* JSON values, as JavaScript holds them.  `undefined` (an absent member)  *)
(* and a function object (an inherited member) are values too.             *)
(***************************************************************************)
Undefined == [t |-> "undefined", v |-> 0]
JNull == [t |-> "null", v |-> 0]
JFunction == [t |-> "function", v |-> 0]
JStr(s) == [t |-> "string", v |-> s]
JNum(n) == [t |-> "number", v |-> n]
JBool(b) == [t |-> "boolean", v |-> b]
JArr(items) == [t |-> "array", v |-> items]
JObj(members) == [t |-> "object", v |-> members]

IsObject(x) == x.t = "object"
IsArray(x) == x.t = "array"
IsDefined(x) == x.t # "undefined"

\* JavaScript truthiness
Truthy(x) ==
    CASE x.t \in {"undefined", "null"} -> FALSE
      [] x.t = "boolean" -> x.v
      [] x.t = "number" -> x.v # 0
      [] x.t = "string" -> x.v # ""
      [] OTHER -> TRUE

\* the own enumerable members of a value, as Object.entries lists them
Members(x) ==
    CASE x.t = "object" -> x.v
      [] x.t = "array" -> [i \in 1..Len(x.v) |-> <<ToString(i - 1), x.v[i]>>]
      [] OTHER -> <<>>

HasOwn(x, key) == \E i \in 1..Len(Members(x)) : Members(x)[i][1] = key

OwnValue(x, key) ==
    Members(x)[CHOOSE i \in 1..Len(Members(x)) : Members(x)[i][1] = key][2]

\* `x.key` for a member name that no prototype defines
Get(x, key) == IF HasOwn(x, key) THEN OwnValue(x, key) ELSE Undefined

\* `"key" in x` for a member name that no prototype defines
Has(x, key) == HasOwn(x, key)

\* whether `key in x` throws: the right operand is not an object
InThrows(x) == x.t \in {"string", "number", "boolean", "undefined", "null"}

\* `key in x` for any key: inherited members count
In(x, key) ==
    \/ HasOwn(x, key)
    \/ key \in ObjectPrototypeKeys
    \/ x.t = "array" /\ key = "length"

\* `x[key]` for any key
Read(x, key) ==
    IF HasOwn(x, key) THEN OwnValue(x, key)
    ELSE IF x.t = "array" /\ key = "length" THEN JNum(Len(x.v))
    ELSE IF key \in ObjectPrototypeKeys THEN JFunction
    ELSE Undefined

\* { ...x, key: value }
Spread(x, key, value) ==
    IF HasOwn(x, key)
    THEN JObj([i \in 1..Len(x.v) |-> IF x.v[i][1] = key THEN <<key, value>> ELSE x.v[i]])
    ELSE JObj(Append(x.v, <<key, value>>))

\* `x.key === "text"`
Is(x, key, text) == Get(x, key).t = "string" /\ Get(x, key).v = text

(***************************************************************************)
(* JSON.stringify and SchemaConverter._formatLiteral                       *)
(***************************************************************************)
\* replaces each character c of s by f[c] where f defines it
MapChars(s, f) ==
    Concat([i \in 1..Len(s) |->
               IF CharAt(s, i) \in DOMAIN f THEN f[CharAt(s, i)] ELSE CharAt(s, i)],
           1, Len(s))

JSON_STRING_ESCAPES ==
    ("\"" :> "\\\"") @@ ("\\" :> "\\\\") @@ ("\n" :> "\\n") @@ ("\r" :> "\\r") @@ ("\t" :> "\\t")

GRAMMAR_LITERAL_ESCAPES ==
    ("\r" :> "\\r") @@ ("\n" :> "\\n") @@ ("\"" :> "\\\"") @@ ("\\" :> "\\\\")

RECURSIVE Stringify(_)

\* JSON.stringify(value)
Stringify(x) ==
    CASE x.t = "string" -> "\"" \o MapChars(x.v, JSON_STRING_ESCAPES) \o "\""
      [] x.t = "number" -> ToString(x.v)
      [] x.t = "boolean" -> IF x.v THEN "true" ELSE "false"
      [] x.t = "null" -> "null"
      [] x.t = "array" -> "[" \o Join([i \in 1..Len(x.v) |->
                                             IF x.v[i].t \in {"undefined", "function"}
                                             THEN "null" ELSE Stringify(x.v[i])], ",")
                                  \o "]"
      [] x.t = "object" ->
            LET kept == SelectSeq(x.v, LAMBDA m : m[2].t \notin {"undefined", "function"})
            IN  "{" \o Join([i \in 1..Len(kept) |->
                                Stringify(JStr(kept[i][1])) \o ":" \o Stringify(kept[i][2])], ",")
                \o "}"
      [] OTHER -> UndefinedText

FormatLiteral(literal) == "\"" \o MapChars(literal, GRAMMAR_LITERAL_ESCAPES) \o "\""

\* SchemaConverter._generateConstantRule
GenerateConstantRule(value) == FormatLiteral(Stringify(value))

(***************************************************************************)
(* buildRepetition.  maxItems is a JSON value: a number, or Undefined.     *)
(***************************************************************************)
\* any number of items, whatever the bounds
BuildRepetitionUnbounded(itemRule, minItems, maxItems, separatorRule) ==
    "(" \o itemRule \o " (" \o separatorRule \o " " \o itemRule \o ")*)?"

RECURSIVE BuildRepetition(_, _, _, _)
BuildRepetition(itemRule, minItems, maxItems, separatorRule) ==
    IF maxItems.t = "number" /\ maxItems.v = 0 THEN ""
    ELSE IF minItems = 0 /\ maxItems.t = "number" /\ maxItems.v = 1 THEN itemRule \o "?"
    ELSE IF separatorRule = ""
    THEN IF minItems = 1 /\ ~IsDefined(maxItems) THEN itemRule \o "+"
         ELSE IF minItems = 0 /\ ~IsDefined(maxItems) THEN itemRule \o "*"
         ELSE itemRule \o "{" \o NumberText(minItems) \o ","
                \o (IF IsDefined(maxItems) THEN NumberText(maxItems.v) ELSE "") \o "}"
    ELSE LET result ==
                 itemRule \o " " \o
                 BuildRepetition("(" \o separatorRule \o " " \o itemRule \o ")",
                                 IF minItems > 0 THEN minItems - 1 ELSE 0,
                                 IF IsDefined(maxItems) THEN JNum(maxItems.v - 1) ELSE Undefined,
                                 "")
         IN  IF minItems = 0 THEN "(" \o result \o ")?" ELSE result

(***************************************************************************)
(* The primitive rule library.                                             *)
(***************************************************************************)
SPACE_RULE == "| \" \" | \"\\n\"{1,2} [ \\t]{0,20}"

BuiltinRule(content, deps) == [content |-> content, deps |-> deps]

PRIMITIVE_RULES ==
    ("boolean" :> BuiltinRule("(\"true\" | \"false\") space", <<>>)) @@
    ("decimal-part" :> BuiltinRule("[0-9]{1,16}", <<>>)) @@
    ("integral-part" :> BuiltinRule("[0] | [1-9] [0-9]{0,15}", <<>>)) @@
    ("number" :> BuiltinRule("(\"-\"? integral-part) (\".\" decimal-part)? ([eE] [-+]? integral-part)? space",
                             <<"integral-part", "decimal-part">>)) @@
    ("integer" :> BuiltinRule("(\"-\"? integral-part) space", <<"integral-part">>)) @@
    ("value" :> BuiltinRule("object | array | string | number | boolean | null",
                            <<"object", "array", "string", "number", "boolean", "null">>)) @@
    ("object" :> BuiltinRule("\"{\" space ( string \":\" space value (\",\" space string \":\" space value)* )? \"}\" space",
                             <<"string", "value">>)) @@
    ("array" :> BuiltinRule("\"[\" space ( value (\",\" space value)* )? \"]\" space", <<"value">>)) @@
    ("uuid" :> BuiltinRule("\"\\\"\" [0-9a-fA-F]{8} \"-\" [0-9a-fA-F]{4} \"-\" [0-9a-fA-F]{4} \"-\" [0-9a-fA-F]{4} \"-\" [0-9a-fA-F]{12} \"\\\"\" space", <<>>)) @@
    ("char" :> BuiltinRule("[^\"\\\\\\x7F\\x00-\\x1F] | [\\\\] ([\"\\\\bfnrt] | \"u\" [0-9a-fA-F]{4})", <<>>)) @@
    ("string" :> BuiltinRule("\"\\\"\" char* \"\\\"\" space", <<"char">>)) @@
    ("null" :> BuiltinRule("\"null\" space", <<>>))

STRING_FORMAT_RULES ==
    ("date" :> BuiltinRule("[0-9]{4} \"-\" ( \"0\" [1-9] | \"1\" [0-2] ) \"-\" ( \"0\" [1-9] | [1-2] [0-9] | \"3\" [0-1] )", <<>>)) @@
    ("time" :> BuiltinRule("([01] [0-9] | \"2\" [0-3]) \":\" [0-5] [0-9] \":\" [0-5] [0-9] ( \".\" [0-9]{3} )? ( \"Z\" | ( \"+\" | \"-\" ) ( [01] [0-9] | \"2\" [0-3] ) \":\" [0-5] [0-9] )", <<>>)) @@
    ("date-time" :> BuiltinRule("date \"T\" time", <<"date", "time">>)) @@
    ("date-string" :> BuiltinRule("\"\\\"\" date \"\\\"\" space", <<"date">>)) @@
    ("time-string" :> BuiltinRule("\"\\\"\" time \"\\\"\" space", <<"time">>)) @@
    ("date-time-string" :> BuiltinRule("\"\\\"\" date-time \"\\\"\" space", <<"date-time">>))

\* own keys of RESERVED_NAMES
RESERVED_NAMES == {"root"} \cup DOMAIN PRIMITIVE_RULES \cup DOMAIN STRING_FORMAT_RULES

\* what `CATALOG[key]` yields for a key the catalog only inherits: a function
\* object, whose `content` and `deps` are undefined
InheritedRule == [content |-> UndefinedText, deps |-> <<InheritedMember>>]

\* `PRIMITIVE_RULES[key]`; undefined is modelled by the caller's KeyIn test
ReadPrimitive(key) ==
    IF key \in DOMAIN PRIMITIVE_RULES THEN PRIMITIVE_RULES[key] ELSE InheritedRule

\* `PRIMITIVE_RULES[dep] || STRING_FORMAT_RULES[dep]`; FALSE stands for undefined
ReadDependency(dep) ==
    IF dep \in DOMAIN PRIMITIVE_RULES THEN PRIMITIVE_RULES[dep]
    ELSE IF dep \in ObjectPrototypeKeys THEN InheritedRule
    ELSE IF dep \in DOMAIN STRING_FORMAT_RULES THEN STRING_FORMAT_RULES[dep]
    ELSE BuiltinRule(UndefinedText, <<>>)

DependencyKnown(dep) ==
    dep \in DOMAIN PRIMITIVE_RULES \cup DOMAIN STRING_FORMAT_RULES \cup ObjectPrototypeKeys

(***************************************************************************)
(* The converter's state as the methods thread it: the fields of the       *)
(* instance, the pending exception (err), the value returned (ret) and the *)
(* two histories.  A method entered with an exception pending does nothing.*)
(***************************************************************************)
NoError == ""

NewConverter(order, dot) ==
    [rules |-> ("space" :> SPACE_RULE),
     refs |-> <<>>,
     being |-> {},
     order |-> order,
     dotall |-> dot,
     err |-> NoError,
     ret |-> "",
     writes |-> <<>>,
     visits |-> <<>>]

\* what err holds when the call is in a loop it never leaves
NeverReturns == "(the call does not return)"

Throw(st, e) == IF st.err # NoError THEN st ELSE [st EXCEPT !.err = e]

Return(st, v) == IF st.err # NoError THEN st ELSE [st EXCEPT !.ret = v]

\* CHOOSE v \in { e : x \in {a} } : TRUE is e with x standing for the value a:
\* a local constant of a method body (const x = a; ... e ...)

(***************************************************************************)
(* SchemaConverter._addRule                                                *)
(***************************************************************************)
RECURSIVE ProbeSuffix(_, _, _, _)
\* the while loop: the first i whose slot escName+i is absent or holds rule
ProbeSuffix(rs, escName, rule, i) ==
    IF KeyIn(rs, escName \o ToString(i)) /\ ReadRule(rs, escName \o ToString(i)) # rule
    THEN ProbeSuffix(rs, escName, rule, i + 1)
    ELSE i

\* _addRule without the probe: a taken name is written over
AddRuleKeyOverwriting(rs, name, rule) == ReplaceInvalidRuleChars(name)

\* the key _addRule(name, rule) chooses in the table rs
AddRuleKey(rs, name, rule) ==
    LET escName == ReplaceInvalidRuleChars(name) IN
    IF KeyIn(rs, escName)
    THEN IF ReadRule(rs, escName) = rule
         THEN escName
         ELSE escName \o ToString(ProbeSuffix(rs, escName, rule, 0))
    ELSE escName

AddRule(st, name, rule) ==
    IF st.err # NoError THEN st
    ELSE LET key == AddRuleKey(st.rules, name, rule) IN
         [st EXCEPT !.rules = WriteKey(@, key, rule),
                    !.ret = key,
                    !.writes = Append(@, [base |-> ReplaceInvalidRuleChars(name),
                                          key |-> key,
                                          rule |-> rule,
                                          had |-> key \in DOMAIN st.rules,
                                          old |-> ReadRule(st.rules, key)])]

(***************************************************************************)
(* SchemaConverter._addPrimitive                                           *)
(***************************************************************************)
RECURSIVE AddPrimitive(_, _, _)
RECURSIVE AddDependencies(_, _, _)

AddDependencies(st, deps, i) ==
    IF st.err # NoError \/ i > Len(deps) THEN st
    ELSE IF deps[i] = InheritedMember
         THEN Throw(st, "TypeError: rule.deps is not iterable")
    ELSE IF ~DependencyKnown(deps[i])
         THEN Throw(st, "Rule " \o deps[i] \o " not known")
    ELSE IF ~KeyIn(st.rules, deps[i])
         THEN (CHOOSE v \in {
                 AddDependencies(s1, deps, i + 1)
                 : s1 \in {AddPrimitive(st, deps[i], ReadDependency(deps[i]))} } : TRUE)
    ELSE AddDependencies(st, deps, i + 1)

AddPrimitive(st, name, rule) ==
    IF st.err # NoError THEN st
    ELSE (CHOOSE v \in {
            (CHOOSE v \in {
   Return(s2, s1.ret)
   : s2 \in {AddDependencies(s1, rule.deps, 1)} } : TRUE)
            : s1 \in {AddRule(st, name, rule.content)} } : TRUE)

(***************************************************************************)
(* SchemaConverter._notStrings.  The trie node reached by a prefix is      *)
(* given by the excluded strings that extend it: its children are the     *)
(* next characters, and it ends a string when the prefix is excluded.      *)
(***************************************************************************)
TrieChildren(strings, prefix) ==
    { CharAt(strings[i], Len(prefix) + 1) :
        i \in { j \in 1..Len(strings) :
                  Len(strings[j]) > Len(prefix) /\ StartsWith(strings[j], prefix) } }

TrieIsEndOfString(strings, prefix) == \E i \in 1..Len(strings) : strings[i] = prefix

RECURSIVE SortedChars(_)
\* Object.keys(node.children).sort(): by code unit
SortedChars(S) ==
    IF S = {} THEN <<>>
    ELSE LET first == CHOOSE c \in S : \A d \in S : CharCode(c) <= CharCode(d)
         IN  <<first>> \o SortedChars(S \ {first})

RECURSIVE TrieVisit(_, _, _)
RECURSIVE TrieVisitChildren(_, _, _, _, _)

TrieVisitChildren(strings, prefix, charRuleName, cs, i) ==
    IF i > Len(cs) THEN ""
    ELSE LET child == prefix \o cs[i] IN
         (IF i = 1 THEN "" ELSE " | ")
         \o "[" \o cs[i] \o "]"
         \o (IF TrieChildren(strings, child) # {}
             THEN " (" \o TrieVisit(strings, child, charRuleName) \o ")"
             ELSE IF TrieIsEndOfString(strings, child)
             THEN " " \o charRuleName \o "+"
             ELSE "")
         \o TrieVisitChildren(strings, prefix, charRuleName, cs, i + 1)

TrieVisit(strings, prefix, charRuleName) ==
    LET cs == SortedChars(TrieChildren(strings, prefix)) IN
    TrieVisitChildren(strings, prefix, charRuleName, cs, 1)
    \o (IF Len(cs) > 0
        THEN " | " \o "[^\"" \o Join(cs, "") \o "] " \o charRuleName \o "*"
        ELSE "")

NotStrings(st, strings) ==
    (CHOOSE v \in {
       Return(s1, "[\"] ( " \o TrieVisit(strings, "", s1.ret)
               \o " )" \o (IF TrieIsEndOfString(strings, "") THEN "" ELSE "?")
               \o " [\"] space")
       : s1 \in {AddPrimitive(st, "char", PRIMITIVE_RULES["char"])} } : TRUE)

(***************************************************************************)
(* SchemaConverter.visit and the methods it calls.                         *)
(***************************************************************************)
RECURSIVE Visit(_, _, _, _)
RECURSIVE VisitPattern(_, _, _)
RECURSIVE GenerateMinMaxInt(_, _, _, _)

\* `${name ?? ""}${name ? "-" : ""}${suffix}`
SubName(name, suffix) == name \o (IF name # "" THEN "-" ELSE "") \o suffix

\* every name taken for a reserved one
RuleNameReserved(name) == IF name = "" THEN "root" ELSE name \o "-"

\* const ruleName = name in RESERVED_NAMES ? name + "-" : name === "" ? "root" : name
RuleNameFor(name) ==
    IF name \in RESERVED_NAMES \/ name \in ObjectPrototypeKeys THEN name \o "-"
    ELSE IF name = "" THEN "root"
    ELSE name

\* `this._refs[ref]`
ReadRef(rf, ref) ==
    IF ref \in DOMAIN rf THEN rf[ref]
    ELSE IF ref \in ObjectPrototypeKeys THEN JFunction
    ELSE Undefined

\* ref.split("#").pop()
RefFragment(ref) == LET parts == Split(ref, "#") IN parts[Len(parts)]

\* SchemaConverter._resolveRef
ResolveRef(st, ref, depth) ==
    IF st.err # NoError THEN st
    ELSE LET refName == "ref" \o ReplaceInvalidRuleChars(RefFragment(ref)) IN
         IF ~KeyIn(st.rules, refName) /\ ref \notin st.being
         THEN (CHOOSE v \in {
                 IF s2.err # NoError THEN s2
              ELSE [s2 EXCEPT !.being = @ \ {ref}]
                 : s2 \in {Visit([st EXCEPT !.being = @ \cup {ref}],
                                   ReadRef(st.refs, ref), refName, depth + 1)} } : TRUE)
         ELSE Return(st, refName)

RECURSIVE VisitEach(_, _, _, _, _, _)
\* schemas.map((s, i) => this.visit(s, names[i])): the names returned, in ret
VisitEach(st, schemas, names, i, acc, depth) ==
    IF st.err # NoError THEN st
    ELSE IF i > Len(schemas) THEN [st EXCEPT !.ret = acc]
    ELSE (CHOOSE v \in {
            VisitEach(s1, schemas, names, i + 1, Append(acc, s1.ret), depth)
            : s1 \in {Visit(st, schemas[i], names[i], depth + 1)} } : TRUE)

\* SchemaConverter._generateUnionRule
GenerateUnionRule(st, name, altSchemas, depth) ==
    LET names == [i \in 1..Len(altSchemas) |->
                    name \o (IF name # "" THEN "-" ELSE "alternative-") \o ToString(i - 1)]
    IN  (CHOOSE v \in {
           IF s1.err # NoError THEN s1 ELSE [s1 EXCEPT !.ret = Join(s1.ret, " | ")]
           : s1 \in {VisitEach(st, altSchemas, names, 1, <<>>, depth)} } : TRUE)

(***************************************************************************)
(* SchemaConverter._buildObjectRule.  properties is the sequence of        *)
(* <<name, schema>> entries, required a set of names, additionalProperties *)
(* a JSON value.                                                           *)
(***************************************************************************)
\* index of the first entry named k: properties.findIndex(([k2]) => k2 === k)
FindIndex(properties, k) ==
    CHOOSE i \in 1..Len(properties) :
        properties[i][1] = k /\ \A j \in 1..(i - 1) : properties[j][1] # k

\* the sort comparator: negative, zero or positive.  propOrder[a] ?? Infinity
\* is a number, Infinity, or an inherited function (whose difference is NaN)
ComparePropOrder(order, properties, a, b) ==
    LET kind(k) == IF k \in DOMAIN order THEN "number"
                   ELSE IF k \in ObjectPrototypeKeys THEN "function"
                   ELSE "infinity"
        byIndex == FindIndex(properties, a) - FindIndex(properties, b)
    IN  IF kind(a) = "number" /\ kind(b) = "number"
        THEN IF order[a] - order[b] # 0 THEN order[a] - order[b] ELSE byIndex
        ELSE IF kind(a) = "number" /\ kind(b) = "infinity" THEN -1
        ELSE IF kind(a) = "infinity" /\ kind(b) = "number" THEN 1
        ELSE byIndex

RECURSIVE InsertSorted(_, _, _, _)
InsertSorted(order, properties, sorted, k) ==
    IF Len(sorted) = 0 THEN <<k>>
    ELSE IF ComparePropOrder(order, properties, sorted[Len(sorted)], k) <= 0
         THEN Append(sorted, k)
         ELSE Append(InsertSorted(order, properties, SubSeq(sorted, 1, Len(sorted) - 1), k),
                     sorted[Len(sorted)])

\* the property names in the reverse of their declaration order
SortPropsReversed(order, properties, n) == [i \in 1..n |-> properties[n + 1 - i][1]]

RECURSIVE SortProps(_, _, _)
\* properties.map(([k]) => k).sort(comparator): a stable sort
SortProps(order, properties, n) ==
    IF n = 0 THEN <<>>
    ELSE InsertSorted(order, properties, SortProps(order, properties, n - 1), properties[n][1])

RECURSIVE VisitProperties(_, _, _, _, _, _)
\* the loop over properties: visits each sub-schema and registers its kv rule;
\* kv is propKvRuleNames, its own members
VisitProperties(st, properties, name, i, kv, depth) ==
    IF st.err # NoError THEN st
    ELSE IF i > Len(properties) THEN [st EXCEPT !.ret = kv]
    ELSE LET propName == properties[i][1] IN
         (CHOOSE v \in {
            (CHOOSE v \in {
   IF s2.err # NoError THEN s2
         ELSE VisitProperties(s2, properties, name, i + 1,
                              WriteKey(kv, propName, s2.ret), depth)
   : s2 \in {AddRule(s1, SubName(name, propName) \o "-kv",
                               FormatLiteral(Stringify(JStr(propName)))
                               \o " space \":\" space " \o s1.ret)} } : TRUE)
            : s1 \in {Visit(st, properties[i][2], SubName(name, propName), depth + 1)} } : TRUE)

RECURSIVE GetRecursiveRefs(_, _, _, _, _)
GetRecursiveRefs(st, ks, firstIsOptional, name, kv) ==
    LET k == ks[1]
        rest == Tail(ks)
        kvRuleName == ReadRule(kv, k)
        commaRef == "( \",\" space " \o kvRuleName \o " )"
        res == IF firstIsOptional
               THEN commaRef \o (IF k = "*" THEN "*" ELSE "?")
               ELSE kvRuleName \o (IF k = "*" THEN " " \o commaRef \o "*" ELSE "")
    IN  IF Len(rest) > 0
        THEN (CHOOSE v \in {
                (CHOOSE v \in {
   Return(s2, res \o " " \o s2.ret)
   : s2 \in {AddRule(s1, SubName(name, k) \o "-rest", s1.ret)} } : TRUE)
                : s1 \in {GetRecursiveRefs(st, rest, TRUE, name, kv)} } : TRUE)
        ELSE Return(st, res)

RECURSIVE OptionalAlternatives(_, _, _, _, _, _)
\* optionalProps.map((_, i) => getRecursiveRefs(optionalProps.slice(i), false))
OptionalAlternatives(st, optionalProps, i, name, kv, acc) ==
    IF i > Len(optionalProps) THEN Return(st, Join(acc, " | "))
    ELSE (CHOOSE v \in {
            OptionalAlternatives(s1, optionalProps, i + 1, name, kv, Append(acc, s1.ret))
            : s1 \in {GetRecursiveRefs(st, SubSeq(optionalProps, i, Len(optionalProps)),
                                        FALSE, name, kv)} } : TRUE)

BuildObjectRule(st, properties, required, name, additionalProperties, depth) ==
    IF st.err # NoError THEN st
    ELSE
    LET sortedProps == SortProps(st.order, properties, Len(properties))
        requiredProps == SelectSeq(sortedProps, LAMBDA k : k \in required)
        optional1 == SelectSeq(sortedProps, LAMBDA k : k \notin required)
        subName == SubName(name, "additional")
        withAdditional == Truthy(additionalProperties)
        optionalProps == IF withAdditional THEN Append(optional1, "*") ELSE optional1
        \* if (additionalProperties) { ... }: the converter once the kv rule of
        \* "*" is registered, its name in ret
        Additional(s1) ==
            (CHOOSE v \in {
               (CHOOSE v \in {
   (CHOOSE v \in {
   AddRule(s3, subName \o "-kv", s3.ret \o " \":\" space " \o s2.ret)
   : s3 \in {IF Len(sortedProps) = 0
                          THEN AddPrimitive(s2, "string", PRIMITIVE_RULES["string"])
                          ELSE AddRule(n1, subName \o "-k", n1.ret)} } : TRUE)
   : n1 \in {IF Len(sortedProps) = 0 THEN s2 ELSE NotStrings(s2, sortedProps)} } : TRUE)
               : s2 \in {IF IsObject(additionalProperties)
                          THEN Visit(s1, additionalProperties, subName \o "-value", depth + 1)
                          ELSE AddPrimitive(s1, "value", PRIMITIVE_RULES["value"])} } : TRUE)
        \* the rule text, given the converter s5 and propKvRuleNames kv
        Rule(s5, kv) ==
            LET head == "\"{\" space "
                        \o Join([i \in 1..Len(requiredProps) |-> ReadRule(kv, requiredProps[i])],
                                " \",\" space ")
            IN  IF s5.err # NoError THEN s5
                ELSE IF Len(optionalProps) > 0
                THEN (CHOOSE v \in {
                        Return(s6, head \o " ("
                                \o (IF Len(requiredProps) > 0 THEN " \",\" space ( " ELSE "")
                                \o s6.ret
                                \o (IF Len(requiredProps) > 0 THEN " )" ELSE "")
                                \o " )?"
                                \o " \"}\" space")
                        : s6 \in {OptionalAlternatives(s5, optionalProps, 1, name, kv, <<>>)} } : TRUE)
                ELSE Return(s5, head \o " \"}\" space")
    IN  (CHOOSE v \in {
           IF s1.err # NoError THEN s1
        ELSE IF withAdditional
        THEN (CHOOSE v \in {
                Rule(s4, WriteKey(s1.ret, "*", s4.ret))
                : s4 \in {Additional(s1)} } : TRUE)
        ELSE Rule(s1, s1.ret)
           : s1 \in {VisitProperties(st, properties, name, 1, <<>>, depth)} } : TRUE)

(***************************************************************************)
(* The allOf branch of visit: addComponent over the branches.  The result  *)
(* is [properties, required, enumSets, err].                               *)
(***************************************************************************)
NoComponents == [properties |-> <<>>, required |-> {}, enumSets |-> <<>>, err |-> NoError]

AddComponent(rf, acc, compSchema0, isRequired) ==
    IF acc.err # NoError THEN acc
    ELSE
    LET compRef == Get(compSchema0, "$ref")
        compSchema == IF IsDefined(compRef) THEN ReadRef(rf, compRef.v) ELSE compSchema0
    IN  IF InThrows(compSchema)
        THEN [acc EXCEPT !.err = "TypeError: Cannot use 'in' operator to search for 'properties'"]
        ELSE
        LET props == IF Has(compSchema, "properties")
                     THEN Members(Get(compSchema, "properties")) ELSE <<>>
        IN  [acc EXCEPT
               !.properties = @ \o props,
               !.required = IF isRequired
                            THEN @ \cup {props[i][1] : i \in 1..Len(props)} ELSE @,
               !.enumSets = IF Has(compSchema, "enum")
                            THEN Append(@, IF Truthy(Get(compSchema, "enum"))
                                           THEN Get(compSchema, "enum").v ELSE <<>>)
                            ELSE @]

RECURSIVE AddComponents(_, _, _, _, _)
AddComponents(rf, acc, comps, i, isRequired) ==
    IF i > Len(comps) THEN acc
    ELSE AddComponents(rf, AddComponent(rf, acc, comps[i], isRequired), comps, i + 1, isRequired)

RECURSIVE AllOfComponents(_, _, _, _)
\* for (const t of schema.allOf) { ... }
AllOfComponents(rf, acc, allOf, i) ==
    IF i > Len(allOf) \/ acc.err # NoError THEN acc
    ELSE IF InThrows(allOf[i])
         THEN [acc EXCEPT !.err = "TypeError: Cannot use 'in' operator to search for 'anyOf'"]
    ELSE IF Has(allOf[i], "anyOf")
         THEN AllOfComponents(rf, AddComponents(rf, acc, Get(allOf[i], "anyOf").v, 1, FALSE),
                              allOf, i + 1)
    ELSE AllOfComponents(rf, AddComponent(rf, acc, allOf[i], TRUE), allOf, i + 1)

\* String(v) for an enum member
StringOf(x) == IF x.t = "string" THEN x.v ELSE Stringify(x)

RECURSIVE SortedEnums(_)
\* [...enumIntersection].sort((a, b) => String(a).localeCompare(String(b)))
SortedEnums(S) ==
    IF S = {} THEN <<>>
    ELSE LET first == CHOOSE a \in S : \A b \in S : LocaleCompare(StringOf(a), StringOf(b)) <= 0
         IN  <<first>> \o SortedEnums(S \ {first})

\* the members of enumSets[0] that every set has
EnumIntersection(enumSets) ==
    { enumSets[1][i] : i \in { j \in 1..Len(enumSets[1]) :
        \A k \in 1..Len(enumSets) : \E m \in 1..Len(enumSets[k]) :
            enumSets[k][m] = enumSets[1][j] } }

(***************************************************************************)
(* The branch of visit's if/else-if chain a schema node takes.             *)
(***************************************************************************)
TypeAbsentOr(s, names) ==
    ~IsDefined(Get(s, "type")) \/ \E n \in names : Is(s, "type", n)

\* /^uuid[1-5]?$/.test(schema.format || "")
IsUuidFormat(s) ==
    /\ Get(s, "format").t = "string"
    /\ Get(s, "format").v \in {"uuid", "uuid1", "uuid2", "uuid3", "uuid4", "uuid5"}

\* `${schema.format}-string`
FormatStringName(s) ==
    (IF Get(s, "format").t = "string" THEN Get(s, "format").v
     ELSE IF IsDefined(Get(s, "format")) THEN Stringify(Get(s, "format"))
     ELSE UndefinedText) \o "-string"

\* the chain with the enum test placed before the const test
DispatchEnumFirst(s) ==
    IF IsDefined(Get(s, "$ref")) THEN "ref"
    ELSE IF Truthy(Get(s, "oneOf")) \/ Truthy(Get(s, "anyOf")) THEN "union"
    ELSE IF IsArray(Get(s, "type")) THEN "typeArray"
    ELSE IF Has(s, "enum") THEN "enum"
    ELSE IF Has(s, "const") THEN "const"
    ELSE IF /\ TypeAbsentOr(s, {"object"})
            /\ \/ Has(s, "properties")
               \/ /\ Has(s, "additionalProperties")
                  /\ Get(s, "additionalProperties") # JBool(TRUE)
         THEN "object"
    ELSE IF TypeAbsentOr(s, {"object", "string"}) /\ Has(s, "allOf") THEN "allOf"
    ELSE IF TypeAbsentOr(s, {"array"}) /\ (Has(s, "items") \/ Has(s, "prefixItems"))
         THEN "array"
    ELSE IF TypeAbsentOr(s, {"string"}) /\ Has(s, "pattern") THEN "pattern"
    ELSE IF TypeAbsentOr(s, {"string"}) /\ IsUuidFormat(s) THEN "uuid"
    ELSE IF TypeAbsentOr(s, {"string"})
            /\ FormatStringName(s) \in DOMAIN STRING_FORMAT_RULES THEN "format"
    ELSE IF Is(s, "type", "string") /\ (Has(s, "minLength") \/ Has(s, "maxLength"))
         THEN "length"
    ELSE IF /\ Is(s, "type", "integer")
            /\ \/ Has(s, "minimum") \/ Has(s, "exclusiveMinimum")
               \/ Has(s, "maximum") \/ Has(s, "exclusiveMaximum")
         THEN "integerRange"
    ELSE IF Is(s, "type", "object") \/ Len(Members(s)) = 0 THEN "genericObject"
    ELSE "primitive"

Dispatch(s) ==
    IF IsDefined(Get(s, "$ref")) THEN "ref"
    ELSE IF Truthy(Get(s, "oneOf")) \/ Truthy(Get(s, "anyOf")) THEN "union"
    ELSE IF IsArray(Get(s, "type")) THEN "typeArray"
    ELSE IF Has(s, "const") THEN "const"
    ELSE IF Has(s, "enum") THEN "enum"
    ELSE IF /\ TypeAbsentOr(s, {"object"})
            /\ \/ Has(s, "properties")
               \/ /\ Has(s, "additionalProperties")
                  /\ Get(s, "additionalProperties") # JBool(TRUE)
         THEN "object"
    ELSE IF TypeAbsentOr(s, {"object", "string"}) /\ Has(s, "allOf") THEN "allOf"
    ELSE IF TypeAbsentOr(s, {"array"}) /\ (Has(s, "items") \/ Has(s, "prefixItems"))
         THEN "array"
    ELSE IF TypeAbsentOr(s, {"string"}) /\ Has(s, "pattern") THEN "pattern"
    ELSE IF TypeAbsentOr(s, {"string"}) /\ IsUuidFormat(s) THEN "uuid"
    ELSE IF TypeAbsentOr(s, {"string"})
            /\ FormatStringName(s) \in DOMAIN STRING_FORMAT_RULES THEN "format"
    ELSE IF Is(s, "type", "string") /\ (Has(s, "minLength") \/ Has(s, "maxLength"))
         THEN "length"
    ELSE IF /\ Is(s, "type", "integer")
            /\ \/ Has(s, "minimum") \/ Has(s, "exclusiveMinimum")
               \/ Has(s, "maximum") \/ Has(s, "exclusiveMaximum")
         THEN "integerRange"
    ELSE IF Is(s, "type", "object") \/ Len(Members(s)) = 0 THEN "genericObject"
    ELSE "primitive"

\* `schema.key || 0` for a numeric member
NumberOrZero(s, key) == IF Get(s, key).t = "number" THEN Get(s, key).v ELSE 0

\* the key under which `schemaType in PRIMITIVE_RULES` looks the type up
TypeKey(s) ==
    IF Get(s, "type").t = "string" THEN Get(s, "type").v
    ELSE IF IsDefined(Get(s, "type")) THEN Stringify(Get(s, "type"))
    ELSE UndefinedText

VisitBranch(st, s, name, ruleName, branch, depth) ==
    CASE branch = "ref" ->
            (CHOOSE v \in {
               AddRule(s1, ruleName, s1.ret)
               : s1 \in {ResolveRef(st, Get(s, "$ref").v, depth)} } : TRUE)
      [] branch = "union" ->
            LET alts == IF Truthy(Get(s, "oneOf")) THEN Get(s, "oneOf") ELSE Get(s, "anyOf")
            IN  (CHOOSE v \in {
                   AddRule(s1, ruleName, s1.ret)
                   : s1 \in {GenerateUnionRule(st, name, alts.v, depth)} } : TRUE)
      [] branch = "typeArray" ->
            LET types == Get(s, "type").v
            IN  (CHOOSE v \in {
                   AddRule(s1, ruleName, s1.ret)
                   : s1 \in {GenerateUnionRule(st, name,
                                 [i \in 1..Len(types) |-> Spread(s, "type", types[i])],
                                 depth)} } : TRUE)
      [] branch = "const" ->
            AddRule(st, ruleName, GenerateConstantRule(Get(s, "const")) \o " space")
      [] branch = "enum" ->
            LET values == Get(s, "enum").v
            IN  AddRule(st, ruleName,
                    "(" \o Join([i \in 1..Len(values) |-> GenerateConstantRule(values[i])], " | ")
                    \o ") space")
      [] branch = "object" ->
            LET required == IF Truthy(Get(s, "required"))
                            THEN {Get(s, "required").v[i].v : i \in 1..Len(Get(s, "required").v)}
                            ELSE {}
                properties == IF Get(s, "properties").t \in {"undefined", "null"}
                              THEN <<>> ELSE Members(Get(s, "properties"))
            IN  (CHOOSE v \in {
                   AddRule(s1, ruleName, s1.ret)
                   : s1 \in {BuildObjectRule(st, properties, required, name,
                                              Get(s, "additionalProperties"), depth)} } : TRUE)
      [] branch = "allOf" ->
            (CHOOSE v \in {
               IF comp.err # NoError THEN Throw(st, comp.err)
            ELSE IF Len(comp.enumSets) > 0 /\ EnumIntersection(comp.enumSets) # {}
            THEN LET sortedEnums == SortedEnums(EnumIntersection(comp.enumSets))
                 IN  AddRule(st, ruleName,
                         "(" \o Join([i \in 1..Len(sortedEnums) |->
                                         GenerateConstantRule(sortedEnums[i])], " | ")
                         \o ") space")
            ELSE (CHOOSE v \in {
                    AddRule(s1, ruleName, s1.ret)
                    : s1 \in {BuildObjectRule(st, comp.properties, comp.required, name,
                                               JNull, depth)} } : TRUE)
               : comp \in {AllOfComponents(st.refs, NoComponents, Get(s, "allOf").v, 1)} } : TRUE)
      [] branch = "array" ->
            LET items == IF Get(s, "items").t \in {"undefined", "null"}
                         THEN Get(s, "prefixItems") ELSE Get(s, "items")
            IN  IF IsArray(items)
                THEN (CHOOSE v \in {
                        AddRule(s1, ruleName,
                         "\"[\" space " \o Join(s1.ret, " \",\" space ") \o " \"]\" space")
                        : s1 \in {VisitEach(st, items.v,
                                      [i \in 1..Len(items.v) |->
                                          SubName(name, "tuple-" \o ToString(i - 1))],
                                      1, <<>>, depth)} } : TRUE)
                ELSE (CHOOSE v \in {
                        AddRule(s1, ruleName,
                         "\"[\" space "
                         \o BuildRepetition(s1.ret, NumberOrZero(s, "minItems"),
                                            Get(s, "maxItems"), "\",\" space")
                         \o " \"]\" space")
                        : s1 \in {Visit(st, items, SubName(name, "item"), depth + 1)} } : TRUE)
      [] branch = "pattern" ->
            VisitPattern(st, Get(s, "pattern").v, ruleName)
      [] branch = "uuid" ->
            AddPrimitive(st, IF ruleName = "root" THEN "root" ELSE Get(s, "format").v,
                         PRIMITIVE_RULES["uuid"])
      [] branch = "format" ->
            (CHOOSE v \in {
               AddRule(s1, ruleName, s1.ret)
               : s1 \in {AddPrimitive(st, FormatStringName(s),
                                       STRING_FORMAT_RULES[FormatStringName(s)])} } : TRUE)
      [] branch = "length" ->
            (CHOOSE v \in {
               AddRule(s1, ruleName,
                "\"\\\"\" "
                \o BuildRepetition(s1.ret, NumberOrZero(s, "minLength"),
                                   Get(s, "maxLength"), "")
                \o " \"\\\"\" space")
               : s1 \in {AddPrimitive(st, "char", PRIMITIVE_RULES["char"])} } : TRUE)
      [] branch = "integerRange" ->
            LET minValue == IF Has(s, "minimum") THEN Get(s, "minimum")
                            ELSE IF Has(s, "exclusiveMinimum")
                            THEN JNum(Get(s, "exclusiveMinimum").v + 1)
                            ELSE JNull
                maxValue == IF Has(s, "maximum") THEN Get(s, "maximum")
                            ELSE IF Has(s, "exclusiveMaximum")
                            THEN JNum(Get(s, "exclusiveMaximum").v - 1)
                            ELSE JNull
            IN  IF minValue = JNull /\ maxValue = JNull
                THEN Throw(st, "At least one of minValue or maxValue must be set")
                ELSE AddRule(st, ruleName,
                         "(" \o GenerateMinMaxInt(minValue, maxValue, 16, TRUE) \o ") space")
      [] branch = "genericObject" ->
            (CHOOSE v \in {
               AddRule(s1, ruleName, s1.ret)
               : s1 \in {AddPrimitive(st, "object", PRIMITIVE_RULES["object"])} } : TRUE)
      [] OTHER ->
            IF ~(TypeKey(s) \in DOMAIN PRIMITIVE_RULES \/ TypeKey(s) \in ObjectPrototypeKeys)
            THEN Throw(st, "Unrecognized schema: " \o Stringify(s))
            ELSE AddPrimitive(st, IF ruleName = "root" THEN "root" ELSE TypeKey(s),
                              ReadPrimitive(TypeKey(s)))

Visit(st, s, name, depth) ==
    CASE st.err # NoError -> st
      [] depth > MaxDepth -> Throw(st, "RangeError: Maximum call stack size exceeded")
      [] s.t \in {"undefined", "null"} ->
            Throw(st, "TypeError: Cannot read properties of " \o s.t)
      [] InThrows(s) ->
            Throw(st, "TypeError: Cannot use 'in' operator to search for 'const'")
      [] OTHER ->
            (CHOOSE v \in {
               IF s1.err # NoError THEN s1
            ELSE [s1 EXCEPT !.visits[Len(st.visits) + 1].key = s1.ret]
               : s1 \in {VisitBranch(
                             [st EXCEPT !.visits =
                                 Append(@, [schema |-> s, name |-> name, depth |-> depth,
                                            branch |-> Dispatch(s), key |-> "",
                                            first |-> Len(st.writes) + 1])],
                             s, name, RuleNameFor(name), Dispatch(s), depth)} } : TRUE)

(***************************************************************************)
(* SchemaConverter._visitPattern.  The scan position i, the sub-rule       *)
(* table subRuleIds and the converter travel in one record c; an element   *)
(* of seq is the pair [s, isLiteral].  subRuleIds is keyed by rule text    *)
(* that is never an identifier, so no inherited member is ever read.       *)
(***************************************************************************)
NON_LITERAL_SET == CharsOf("|.()[]{}*+?")

ESCAPED_IN_REGEXPS_BUT_NOT_IN_LITERALS == CharsOf("^$.[]()|{}*+?")

Item(s, isLiteral) == [s |-> s, lit |-> isLiteral]

\* toRule
ToRule(item) == IF item.lit THEN "\"" \o item.s \o "\"" ELSE item.s

\* destructuring seq[seq.length - 1] of an empty seq
NotIterable == "TypeError: undefined is not iterable (cannot read property Symbol(Symbol.iterator))"

\* getDot
GetDot(st) ==
    AddRule(st, "dot", IF st.dotall THEN "[\\U00000000-\\U0010FFFF]" ELSE "[^\\x0A\\x0D]")

RECURSIVE MergeLiterals(_)
\* joinSeq's loop over groupBy(seq, isLiteral): each run of literals becomes
\* one literal, the other elements are kept
MergeLiterals(seq) ==
    IF Len(seq) <= 1 THEN seq
    ELSE LET rest == MergeLiterals(Tail(seq))
         IN  IF seq[1].lit /\ rest[1].lit
             THEN <<Item(seq[1].s \o rest[1].s, TRUE)>> \o Tail(rest)
             ELSE <<seq[1]>> \o rest

\* joinSeq
JoinSeq(seq) ==
    LET merged == MergeLiterals(seq)
    IN  IF Len(merged) = 1 THEN merged[1]
        ELSE Item(Join([k \in 1..Len(merged) |-> ToRule(merged[k])], " "), FALSE)

RECURSIVE ScanSquareBrackets(_, _, _)
\* the loop that collects a character class up to "]"
ScanSquareBrackets(p, i, squareBrackets) ==
    IF i < Len(p) /\ CharAtIndex(p, i) # "]"
    THEN IF CharAtIndex(p, i) = "\\"
         THEN ScanSquareBrackets(p, i + 2, squareBrackets \o Slice(p, i, i + 2))
         ELSE ScanSquareBrackets(p, i + 1, squareBrackets \o CharAtIndex(p, i))
    ELSE [i |-> i, text |-> squareBrackets]

RECURSIVE ScanCurlyBrackets(_, _, _)
\* the loop that collects a quantifier up to "}"
ScanCurlyBrackets(p, i, curlyBrackets) ==
    IF i < Len(p) /\ CharAtIndex(p, i) # "}"
    THEN ScanCurlyBrackets(p, i + 1, curlyBrackets \o CharAtIndex(p, i))
    ELSE [i |-> i, text |-> curlyBrackets]

RECURSIVE ScanLiteral(_, _, _)
\* the loop that collects a literal
ScanLiteral(p, i, literal) ==
    IF i >= Len(p) THEN [i |-> i, text |-> literal]
    ELSE IF CharAtIndex(p, i) = "\\" /\ i < Len(p) - 1
    THEN IF CharAtIndex(p, i + 1) \in ESCAPED_IN_REGEXPS_BUT_NOT_IN_LITERALS
         THEN ScanLiteral(p, i + 2, literal \o CharAtIndex(p, i + 1))
         ELSE ScanLiteral(p, i + 2, literal \o Slice(p, i, i + 2))
    ELSE IF CharAtIndex(p, i) = "\""
    THEN ScanLiteral(p, i + 1, literal \o "\\\"")
    ELSE IF /\ CharAtIndex(p, i) \notin NON_LITERAL_SET
            /\ \/ i = Len(p) - 1
               \/ literal = ""
               \/ CharAtIndex(p, i + 1) = "."
               \/ CharAtIndex(p, i + 1) \notin NON_LITERAL_SET
    THEN ScanLiteral(p, i + 1, literal \o CharAtIndex(p, i))
    ELSE [i |-> i, text |-> literal]

\* the quantifier branch once the text {...} has been read: the counts, the
\* sub-rule for a non-literal operand, and the repetition that replaces the
\* last element of seq
Quantify(name, c, seq, curlyBrackets) ==
    LET parts == Split(Slice(curlyBrackets, 1, Len(curlyBrackets) - 1), ",")
        nums == [k \in 1..Len(parts) |-> Trim(parts[k])]
        minTimes == IF Len(nums) = 1 THEN ParseInt(nums[1])
                    ELSE IF nums[1] # "" THEN ParseInt(nums[1]) ELSE 0
        maxTimes == IF Len(nums) = 1 THEN JNum(minTimes)
                    ELSE IF nums[2] # "" THEN JNum(ParseInt(nums[2])) ELSE Undefined
    IN  IF Len(nums) # 1 /\ Len(nums) # 2
        THEN [c |-> [c EXCEPT !.st = Throw(@, "Invalid quantifier " \o curlyBrackets)],
              seq |-> seq]
        ELSE IF Len(seq) = 0
        THEN [c |-> [c EXCEPT !.st = Throw(@, NotIterable)], seq |-> seq]
        ELSE LET last == seq[Len(seq)]
                 known == { k \in 1..Len(c.ids) : c.ids[k][1] = last.s }
                 fresh == ~last.lit /\ known = {}
             IN  (CHOOSE v \in {
                    (CHOOSE v \in {
   [c |-> [c EXCEPT !.st = s1,
                                  !.ids = IF fresh THEN Append(@, <<last.s, s1.ret>>) ELSE @],
                  seq |-> [seq EXCEPT ![Len(seq)] =
                              Item(BuildRepetition(sub, minTimes, maxTimes, ""), FALSE)]]
   : sub \in {IF last.lit THEN "\"" \o last.s \o "\""
                                ELSE IF fresh THEN s1.ret
                                ELSE c.ids[CHOOSE k \in known : TRUE][2]} } : TRUE)
                    : s1 \in {IF fresh
                               THEN AddRule(c.st, name \o "-" \o ToString(Len(c.ids) + 1),
                                            last.s)
                               ELSE c.st} } : TRUE)

RECURSIVE Transform(_, _, _, _, _)
\* transform, from the state its while loop is in: the result is the record
\* c it leaves and the element it returns.  An iteration that reads nothing
\* and pushes nothing is repeated for ever.
Transform(p, name, c, start, seq) ==
    LET raise(e) == [c |-> [c EXCEPT !.st = Throw(@, e)], item |-> Item("", FALSE)]
        position(i) == "; start = " \o ToString(start) \o ", i = " \o ToString(i)
                       \o ", pattern = " \o p
        ch == CharAtIndex(p, c.i)
    IN  IF c.st.err # NoError THEN [c |-> c, item |-> Item("", FALSE)]
        ELSE IF c.i >= Len(p) THEN [c |-> c, item |-> JoinSeq(seq)]
        ELSE IF ch = "."
        THEN (CHOOSE v \in {
                Transform(p, name, [c EXCEPT !.st = s1, !.i = @ + 1], start,
                       Append(seq, Item(s1.ret, FALSE)))
                : s1 \in {GetDot(c.st)} } : TRUE)
        ELSE IF ch = "("
        THEN IF c.i + 1 < Len(p) /\ CharAtIndex(p, c.i + 1) = "?"
             THEN raise("Unsupported pattern syntax \"?\" at index " \o ToString(c.i + 1)
                        \o " of /" \o p \o "/")
             ELSE (CHOOSE v \in {
                     Transform(p, name, r.c, start,
                            Append(seq, Item("(" \o ToRule(r.item) \o ")", FALSE)))
                     : r \in {Transform(p, name, [c EXCEPT !.i = @ + 1], c.i + 1, <<>>)} } : TRUE)
        ELSE IF ch = ")"
        THEN IF start <= 0 \/ CharAtIndex(p, start - 1) # "("
             THEN raise("Unbalanced parentheses" \o position(c.i + 1))
             ELSE [c |-> [c EXCEPT !.i = @ + 1], item |-> JoinSeq(seq)]
        ELSE IF ch = "["
        THEN LET scan == ScanSquareBrackets(p, c.i + 1, "[")
             IN  IF scan.i >= Len(p)
                 THEN raise("Unbalanced square brackets" \o position(scan.i))
                 ELSE Transform(p, name, [c EXCEPT !.i = scan.i + 1], start,
                                Append(seq, Item(scan.text \o "]", FALSE)))
        ELSE IF ch = "|"
        THEN Transform(p, name, [c EXCEPT !.i = @ + 1], start, Append(seq, Item("|", FALSE)))
        ELSE IF ch \in {"*", "+", "?"}
        THEN IF Len(seq) = 0 THEN raise(NotIterable)
             ELSE Transform(p, name, [c EXCEPT !.i = @ + 1], start,
                            [seq EXCEPT ![Len(seq)] = Item(ToRule(@) \o ch, FALSE)])
        ELSE IF ch = "{"
        THEN LET scan == ScanCurlyBrackets(p, c.i + 1, "{")
             IN  IF scan.i >= Len(p)
                 THEN raise("Unbalanced curly brackets" \o position(scan.i))
                 ELSE (CHOOSE v \in {
                         Transform(p, name, q.c, start, q.seq)
                         : q \in {Quantify(name, [c EXCEPT !.i = scan.i + 1], seq,
                                             scan.text \o "}")} } : TRUE)
        ELSE LET scan == ScanLiteral(p, c.i, "")
             IN  IF scan.text = "" THEN raise(NeverReturns)
                 ELSE Transform(p, name, [c EXCEPT !.i = scan.i], start,
                                Append(seq, Item(scan.text, TRUE)))

VisitPattern(st, pattern, name) ==
    IF st.err # NoError THEN st
    ELSE IF ~StartsWith(pattern, "^") \/ ~EndsWith(pattern, "$")
    THEN Throw(st, "Pattern must start with \"^\" and end with \"$\"")
    ELSE (CHOOSE v \in {
            (CHOOSE v \in {
   IF s1.err # NoError THEN s1
         ELSE AddRule(s1, name, "\"\\\"\" (" \o ToRule(r.item) \o ") \"\\\"\" space")
   : s1 \in {r.c.st} } : TRUE)
            : r \in {Transform(Slice(pattern, 1, Len(pattern) - 1), name,
                                [st |-> st, i |-> 0, ids |-> <<>>], 0, <<>>)} } : TRUE)

(***************************************************************************)
(* generateMinMaxInt.  The text it pushes to out is the value; minValue    *)
(* and maxValue are a number or null.  moreDigits never gets               *)
(* Number.MAX_SAFE_INTEGER as maxDigits here, its counts being at most 16. *)
(***************************************************************************)
\* any digit, whatever the ends of the range
DigitRangeAny(fromChar, toChar) == "[0-9]"

\* digitRange
DigitRange(fromChar, toChar) ==
    "[" \o (IF fromChar = toChar THEN fromChar ELSE fromChar \o "-" \o toChar) \o "]"

\* moreDigits
MoreDigits(minDigits, maxDigits) ==
    "[0-9]" \o
    (IF minDigits = maxDigits /\ minDigits = 1 THEN ""
     ELSE "{" \o ToString(minDigits)
          \o (IF maxDigits # minDigits THEN "," \o ToString(maxDigits) ELSE "")
          \o "}")

RECURSIVE CommonPrefix(_, _, _)
\* the first index at which fromStr and toStr differ
CommonPrefix(fromStr, toStr, i) ==
    IF i < Len(fromStr) /\ CharAtIndex(fromStr, i) = CharAtIndex(toStr, i)
    THEN CommonPrefix(fromStr, toStr, i + 1)
    ELSE i

RECURSIVE UniformRange(_, _)
\* uniformRange
UniformRange(fromStr, toStr) ==
    LET i == CommonPrefix(fromStr, toStr, 0)
        fromChar == CharAtIndex(fromStr, i)
        toChar == CharAtIndex(toStr, i)
        subLen == Len(fromStr) - i - 1
        fromSub == Slice(fromStr, i + 1, Len(fromStr))
        toSub == Slice(toStr, i + 1, Len(toStr))
        subZeros == Repeat("0", subLen)
        subNines == Repeat("9", subLen)
        between == CharCode(fromChar) < CharCode(toChar) - 1
        toReached == fromSub # subZeros /\ between /\ toSub = subNines
    IN  (IF i > 0 THEN "\"" \o Slice(fromStr, 0, i) \o "\"" ELSE "") \o
        (IF i < Len(fromStr)
         THEN (IF i > 0 THEN " " ELSE "") \o
              (IF subLen > 0
               THEN "(" \o
                    (IF fromSub = subZeros
                     THEN DigitRange(fromChar, FromCharCode(CharCode(toChar) - 1))
                          \o " " \o MoreDigits(subLen, subLen)
                     ELSE "[" \o fromChar \o "] " \o "(" \o UniformRange(fromSub, subNines) \o ")"
                          \o (IF between
                              THEN " | "
                                   \o (IF toSub = subNines
                                       THEN DigitRange(FromCharCode(CharCode(fromChar) + 1), toChar)
                                       ELSE DigitRange(FromCharCode(CharCode(fromChar) + 1),
                                                       FromCharCode(CharCode(toChar) - 1)))
                                   \o " " \o MoreDigits(subLen, subLen)
                              ELSE ""))
                    \o (IF ~toReached
                        THEN " | " \o DigitRange(toChar, toChar) \o " "
                             \o UniformRange(subZeros, toSub)
                        ELSE "")
                    \o ")"
               ELSE "[" \o fromChar \o "-" \o toChar \o "]")
         ELSE "")

RECURSIVE RangesByLength(_, _, _, _)
\* the for loop over the digit counts below maxDigits, and the last range
RangesByLength(minS, digits, maxDigits, maxS) ==
    IF digits < maxDigits
    THEN UniformRange(minS, Repeat("9", digits)) \o " | "
         \o RangesByLength("1" \o Repeat("0", digits), digits + 1, maxDigits, maxS)
    ELSE UniformRange(minS, maxS)

GenerateMinMaxInt(minValue, maxValue, decimalsLeft, topLevel) ==
    LET hasMin == minValue # JNull
        hasMax == maxValue # JNull
        lessDecimals == IF decimalsLeft - 1 > 1 THEN decimalsLeft - 1 ELSE 1
    IN  IF hasMin /\ hasMax
        THEN IF minValue.v < 0 /\ maxValue.v < 0
             THEN "\"-\" ("
                  \o GenerateMinMaxInt(JNum(0 - maxValue.v), JNum(0 - minValue.v), decimalsLeft, TRUE)
                  \o ")"
             ELSE LET minS == IF minValue.v < 0 THEN "0" ELSE ToString(minValue.v)
                      maxS == ToString(maxValue.v)
                  IN  (IF minValue.v < 0
                       THEN "\"-\" ("
                            \o GenerateMinMaxInt(JNum(0), JNum(0 - minValue.v), decimalsLeft, TRUE)
                            \o ") | "
                       ELSE "")
                      \o RangesByLength(minS, Len(minS), Len(maxS), maxS)
        ELSE IF hasMin
        THEN IF minValue.v < 0
             THEN "\"-\" ("
                  \o GenerateMinMaxInt(JNull, JNum(0 - minValue.v), decimalsLeft, FALSE)
                  \o ") | [0] | [1-9] " \o MoreDigits(0, decimalsLeft - 1)
             ELSE IF minValue.v = 0
             THEN IF topLevel THEN "[0] | [1-9] " \o MoreDigits(0, lessDecimals)
                  ELSE MoreDigits(1, decimalsLeft)
             ELSE IF minValue.v <= 9
             THEN LET ch == ToString(minValue.v)
                      rangeStart == IF topLevel THEN "1" ELSE "0"
                  IN  (IF CharCode(ch) > CharCode(rangeStart)
                       THEN DigitRange(rangeStart, FromCharCode(CharCode(ch) - 1))
                            \o " " \o MoreDigits(1, lessDecimals) \o " | "
                       ELSE "")
                      \o DigitRange(ch, "9") \o " " \o MoreDigits(0, lessDecimals)
             ELSE LET minS == ToString(minValue.v)
                      length == Len(minS)
                      ch == CharAtIndex(minS, 0)
                  IN  (IF CharCode(ch) > CharCode("1")
                       THEN DigitRange(IF topLevel THEN "1" ELSE "0",
                                       FromCharCode(CharCode(ch) - 1))
                            \o " " \o MoreDigits(length, lessDecimals) \o " | "
                       ELSE "")
                      \o DigitRange(ch, ch) \o " ("
                      \o GenerateMinMaxInt(JNum(ParseInt(Slice(minS, 1, length))), JNull,
                                           lessDecimals, FALSE)
                      \o ")"
                      \o (IF CharCode(ch) < CharCode("9")
                          THEN " | " \o DigitRange(FromCharCode(CharCode(ch) + 1), "9")
                               \o " " \o MoreDigits(length - 1, lessDecimals)
                          ELSE "")
        ELSE IF maxValue.v >= 0
        THEN (IF topLevel THEN "\"-\" [1-9] " \o MoreDigits(0, lessDecimals) \o " | " ELSE "")
             \o GenerateMinMaxInt(JNum(0), maxValue, decimalsLeft, TRUE)
        ELSE "\"-\" ("
             \o GenerateMinMaxInt(JNum(0 - maxValue.v), JNull, decimalsLeft, FALSE)
             \o ")"

(***************************************************************************)
(* SchemaConverter.resolveRefs(schema), with url = "" (so that the         *)
(* assignment n.$ref = fullRef leaves the schema as it is).                *)
(***************************************************************************)
RECURSIVE WalkPointer(_, _, _, _)
\* the loop over the selectors of ref; the result is [target, err]
WalkPointer(ref, target, selectors, i) ==
    IF i > Len(selectors) THEN [target |-> target, err |-> NoError]
    ELSE IF Truthy(target) /\ InThrows(target)
         THEN [target |-> target,
               err |-> "TypeError: Cannot use 'in' operator to search for '" \o selectors[i] \o "'"]
    ELSE IF Truthy(target) /\ In(target, selectors[i])
         THEN WalkPointer(ref, Read(target, selectors[i]), selectors, i + 1)
    ELSE [target |-> target,
          err |-> "Error resolving ref " \o ref \o ": " \o selectors[i] \o " not in "
                  \o Stringify(target)]

RECURSIVE WalkRefs(_, _, _)
RECURSIVE WalkAll(_, _, _, _)

WalkAll(st, root, values, i) ==
    IF st.err # NoError \/ i > Len(values) THEN st
    ELSE (CHOOSE v \in {
            WalkAll(s1, root, values, i + 1)
            : s1 \in {WalkRefs(st, root, values[i])} } : TRUE)

\* the inner function visit(n) of resolveRefs
WalkRefs(st, root, n) ==
    IF st.err # NoError THEN st
    ELSE IF IsArray(n) THEN WalkAll(st, root, n.v, 1)
    ELSE IF IsObject(n)
    THEN LET ref == Get(n, "$ref") IN
         IF IsDefined(ref) /\ (ref.t # "string" \/ ~Truthy(ReadRef(st.refs, ref.v)))
         THEN IF ref.t # "string"
              THEN Throw(st, "TypeError: ref.startsWith is not a function")
              ELSE IF StartsWith(ref.v, "https://")
              THEN Throw(st, "Fetching remote schemas is not supported in this implementation")
              ELSE IF StartsWith(ref.v, "#/")
              THEN LET walk == WalkPointer(ref.v, root, Tail(Split(ref.v, "/")), 1)
                   IN  IF walk.err # NoError THEN Throw(st, walk.err)
                       ELSE [st EXCEPT !.refs = WriteKey(@, ref.v, walk.target)]
              ELSE Throw(st, "Unsupported ref " \o ref.v)
         ELSE WalkAll(st, root, [i \in 1..Len(n.v) |-> n.v[i][2]], 1)
    ELSE st

ResolveRefs(st, root) == WalkRefs(st, root, root)

(***************************************************************************)
(* SchemaConverter.formatGrammar                                           *)
(***************************************************************************)
RECURSIVE SortedNames(_)
\* Object.entries(this._rules).sort(([a], [b]) => a.localeCompare(b)), names only
SortedNames(S) ==
    IF S = {} THEN <<>>
    ELSE LET first == CHOOSE a \in S : \A b \in S : LocaleCompare(a, b) <= 0
         IN  <<first>> \o SortedNames(S \ {first})

\* the lines formatGrammar() concatenates, in order
FormatGrammar(rs) ==
    LET names == SortedNames(DOMAIN rs)
    IN  [i \in 1..Len(names) |-> names[i] \o " ::= " \o rs[names[i]] \o "\n"]

(***************************************************************************)
(* The rule-table specification: one converter, on which a caller makes    *)
(* up to MaxCalls calls of _addRule, _addPrimitive and formatGrammar.      *)
(***************************************************************************)
TableNames == {"a", "a0", "a b", "B", "valueOf"}
TableBodies == {"x", "y"}
TablePrimitives == {"string", "date-time-string"}
TableSchemas ==
    {JObj(<< <<"const", JStr("k")>> >>),
     JObj(<< <<"properties", JObj(<< <<"b", JObj(<< <<"type", JStr("string")>> >>)>> >>)>> >>)}
TableVisitNames == {"", "a"}

EmptySchema == JObj(<<>>)

Conv ==
    [rules |-> rules, refs |-> refs, being |-> refsBeingResolved,
     order |-> propOrder, dotall |-> dotall, err |-> NoError, ret |-> "",
     writes |-> writes, visits |-> visits]

Store(st) ==
    /\ rules' = st.rules
    /\ refs' = st.refs
    /\ refsBeingResolved' = st.being
    /\ err' = st.err
    /\ ret' = IF st.err # NoError THEN "" ELSE st.ret
    /\ writes' = st.writes
    /\ visits' = st.visits

InitTable ==
    /\ rules = ("space" :> SPACE_RULE)
    /\ refs = <<>>
    /\ refsBeingResolved = {}
    /\ propOrder = <<>>
    /\ dotall = FALSE
    /\ schema = EmptySchema
    /\ pc = "new"
    /\ call = <<>>
    /\ ret = ""
    /\ err = NoError
    /\ grammar = <<>>
    /\ writes = <<>>
    /\ visits = <<>>
    /\ ncalls = 0
    /\ Constructed

CallAddRule ==
    /\ ncalls < MaxCalls
    /\ \E name \in TableNames, rule \in TableBodies :
          /\ \E st \in {AddRule(Conv, name, rule)} : Store(st)
          /\ call' = <<name, rule>>
    /\ pc' = "addRule"
    /\ ncalls' = ncalls + 1
    /\ UNCHANGED <<propOrder, dotall, schema, grammar>>
    /\ UNCHANGED instance

CallAddPrimitive ==
    /\ ncalls < MaxCalls
    /\ \E name \in TablePrimitives :
          /\ \E st \in {AddPrimitive(Conv, name, ReadDependency(name))} : Store(st)
          /\ call' = <<name>>
    /\ pc' = "addPrimitive"
    /\ ncalls' = ncalls + 1
    /\ UNCHANGED <<propOrder, dotall, schema, grammar>>
    /\ UNCHANGED instance

CallFormatGrammar ==
    /\ ncalls < MaxCalls
    /\ grammar' = FormatGrammar(rules)
    /\ pc' = "formatGrammar"
    /\ call' = <<>>
    /\ ret' = ""
    /\ err' = NoError
    /\ ncalls' = ncalls + 1
    /\ UNCHANGED <<rules, refs, refsBeingResolved, propOrder, dotall, schema, writes, visits>>
    /\ UNCHANGED instance

CallVisit ==
    /\ ncalls < MaxCalls
    /\ \E s \in TableSchemas, name \in TableVisitNames :
          /\ \E st \in {Visit(Conv, s, name, 1)} : Store(st)
          /\ call' = <<name, Stringify(s)>>
    /\ pc' = "visit"
    /\ ncalls' = ncalls + 1
    /\ UNCHANGED <<propOrder, dotall, schema, grammar>>
    /\ UNCHANGED instance

NextTable == CallAddRule \/ CallAddPrimitive \/ CallVisit \/ CallFormatGrammar

SpecTable == InitTable /\ [][NextTable]_vars

(***************************************************************************)
(* The compile specification: convertJsonSchemaToGrammar(schema) on a      *)
(* fresh converter, one step per call it makes.  pc is "failed" once a     *)
(* call has thrown (err holds the message), "done" once the grammar has    *)
(* been returned, and "visiting" when visit is in a loop it never leaves.  *)
(***************************************************************************)
StringSchema == JObj(<< <<"type", JStr("string")>> >>)
BooleanSchema == JObj(<< <<"type", JStr("boolean")>> >>)
DateTimeSchema == JObj(<< <<"format", JStr("date-time")>> >>)
ConstSchema == JObj(<< <<"const", JStr("k")>> >>)

\* the keywords a schema node may carry, in the order the node declares them
FeatureNames ==
    <<"ref", "oneOf", "const", "enum", "properties", "additionalProperties", "allOf",
      "items", "pattern", "uuid", "date", "minLength", "minimum">>

FeatureMember ==
    ("ref" :> <<"$ref", JStr("#/$defs/t")>>) @@
    ("oneOf" :> <<"oneOf", JArr(<<BooleanSchema, ConstSchema>>)>>) @@
    ("const" :> <<"const", JStr("k")>>) @@
    ("enum" :> <<"enum", JArr(<<JStr("a\"b"), JNum(1)>>)>>) @@
    ("properties" :> <<"properties", JObj(<< <<"p", BooleanSchema>> >>)>>) @@
    ("additionalProperties" :> <<"additionalProperties", JBool(FALSE)>>) @@
    ("allOf" :> <<"allOf", JArr(<< JObj(<< <<"properties", JObj(<< <<"q", StringSchema>> >>)>> >>) >>)>>) @@
    ("items" :> <<"items", StringSchema>>) @@
    ("pattern" :> <<"pattern", JStr("^ab$")>>) @@
    ("uuid" :> <<"format", JStr("uuid4")>>) @@
    ("date" :> <<"format", JStr("date")>>) @@
    ("minLength" :> <<"minLength", JNum(1)>>) @@
    ("minimum" :> <<"minimum", JNum(0)>>)

TypeChoices ==
    {Undefined, JStr("string"), JStr("object"), JStr("integer"), JStr("array"),
     JStr("number"), JArr(<<JStr("string"), JStr("null")>>),
     JStr("unknown"), JStr("char")}

FeatureSets ==
    { F \in SUBSET {FeatureNames[i] : i \in 1..Len(FeatureNames)} :
        Cardinality(F) <= 2 /\ ~({"uuid", "date"} \subseteq F) }

\* the node with the given type and keywords; a node with a $ref comes with
\* the definition it refers to
FeatureSchema(type, F) ==
    JObj((IF IsDefined(type) THEN << <<"type", type>> >> ELSE <<>>)
         \o [i \in 1..Cardinality(F) |->
               FeatureMember[SelectSeq(FeatureNames, LAMBDA f : f \in F)[i]]]
         \o (IF "ref" \in F
             THEN << <<"$defs", JObj(<< <<"t", StringSchema>> >>)>> >>
             ELSE <<>>))

FeatureSchemas == { FeatureSchema(type, F) : type \in TypeChoices, F \in FeatureSets }

PropertyNames == {"a", "", "date time", "root", "string", "Zip", "valueOf"}
PropertyLeaves == {StringSchema, ConstSchema, DateTimeSchema}

\* objects with two properties, the first one required
PropertySchemas ==
    UNION { { JObj(<< <<"type", JStr("object")>>,
                      <<"properties", JObj(<< <<n1, l1>>, <<n2, l2>> >>)>>,
                      <<"required", JArr(<<JStr(n1)>>)>> >>) :
                n2 \in PropertyNames \ {n1},
                l1 \in PropertyLeaves, l2 \in PropertyLeaves } :
            n1 \in PropertyNames }

RefTo(pointer) == JObj(<< <<"$ref", JStr(pointer)>> >>)

\* a schema whose property x is target-or-$ref, over the definitions defs
WithDefs(x, defs) ==
    JObj(<< <<"type", JStr("object")>>,
            <<"properties", JObj(<< <<"x", x>> >>)>>,
            <<"$defs", JObj(defs)>> >>)

\* a root that is itself a $ref, over the definitions defs
RootRef(pointer, defs) ==
    JObj(<< <<"$ref", JStr(pointer)>>, <<"$defs", JObj(defs)>> >>)

NodeSchema ==
    JObj(<< <<"type", JStr("object")>>,
            <<"properties", JObj(<< <<"next", RefTo("#/$defs/node")>> >>)>> >>)

RefSchemas ==
    { \* plain, repeated and nested references
      WithDefs(RefTo("#/$defs/a"), << <<"a", StringSchema>> >>),
      WithDefs(RefTo("#/$defs/a"), << <<"a", RefTo("#/$defs/b")>>, <<"b", StringSchema>> >>),
      WithDefs(RefTo("#/$defs/a"), << <<"a", JObj(<< <<"items", RefTo("#/$defs/b")>> >>)>>,
                                      <<"b", BooleanSchema>> >>),
      JObj(<< <<"properties", JObj(<< <<"x", RefTo("#/$defs/a")>>, <<"y", RefTo("#/$defs/a")>> >>)>>,
              <<"$defs", JObj(<< <<"a", StringSchema>> >>)>> >>),
      \* cycles: a definition referring to itself, mutual references, pure aliases
      WithDefs(RefTo("#/$defs/node"), << <<"node", NodeSchema>> >>),
      WithDefs(RefTo("#/$defs/a"), << <<"a", RefTo("#/$defs/a")>> >>),
      WithDefs(RefTo("#/$defs/a"), << <<"a", RefTo("#/$defs/b")>>, <<"b", RefTo("#/$defs/a")>> >>),
      WithDefs(RefTo("#/$defs/a"),
               << <<"a", JObj(<< <<"anyOf", JArr(<<RefTo("#/$defs/b"), JObj(<< <<"type", JStr("null")>> >>)>>)>> >>)>>,
                  <<"b", JObj(<< <<"items", RefTo("#/$defs/a")>> >>)>> >>),
      WithDefs(RefTo("#/properties/x"), <<>>),
      \* roots that are references themselves
      RootRef("#/$defs/a", << <<"a", StringSchema>> >>),
      RootRef("#/$defs/node", << <<"node", NodeSchema>> >>),
      RootRef("#/$defs/a", << <<"a", RefTo("#/$defs/a")>> >>),
      RootRef("#/$defs/a", << <<"a", RefTo("#/$defs/b")>>, <<"b", StringSchema>> >>),
      RootRef("#/$defs/a", << <<"a", RefTo("#/$defs/b")>>, <<"b", RefTo("#/$defs/a")>> >>),
      \* references that do not resolve inside the document
      RefTo("https://example.com/schema.json"),
      RefTo("http://example.com/schema.json"),
      RefTo("some-file.json"),
      RefTo("#"),
      WithDefs(RefTo("#/$defs/missing"), << <<"a", StringSchema>> >>),
      WithDefs(RefTo("#/$defs/a/b"), << <<"a", StringSchema>> >>),
      WithDefs(RefTo("#/$defs/a/type/x"), << <<"a", StringSchema>> >>),
      WithDefs(RefTo("#/definitions/a"), << <<"a", StringSchema>> >>),
      WithDefs(RefTo("#/$defs/toString"), << <<"a", StringSchema>> >>),
      WithDefs(RefTo("#/valueOf"), <<>>),
      JObj(<< <<"properties", JObj(<< <<"x", RefTo("#/$defs/a")>>, <<"y", RefTo("other.json")>> >>)>>,
              <<"$defs", JObj(<< <<"a", StringSchema>> >>)>> >>) }

\* regular expressions a string schema may carry as its pattern
Patterns ==
    {"^a.b$", "^(a|b)+$", "^[0-9]{2,3}x{2}$", "^a{,3}$", "^(ab){2}.(ab){1}$",
     "^\\.\"$", "^a)$", "^(?:a)$", "^[a$", "^a{1$", "^a{1,2,3}$", "^*$", "ab", "^a}$",
     "", "^", "$", "^ab", "ab$", "a^b$", "^(a$", "^a(b|c$"}

PatternSchemas ==
    { JObj(<< <<"type", JStr("string")>>, <<"pattern", JStr(p)>> >>) : p \in Patterns }
    \cup { JObj(<< <<"properties",
                     JObj(<< <<"a", JObj(<< <<"pattern", JStr(p)>> >>)>> >>)>> >>) :
               p \in {"^x{2}$", "^x]$", "ab$"} }

\* the bounds an integer schema may carry
IntegerBounds == {-12, -3, 0, 7, 25, 130}

IntegerSchemas ==
    { JObj(<< <<"type", JStr("integer")>>,
               <<"minimum", JNum(b[1])>>, <<"maximum", JNum(b[2])>> >>) :
         b \in { c \in IntegerBounds \X IntegerBounds : c[1] <= c[2] } }
    \cup { JObj(<< <<"type", JStr("integer")>>, <<key, JNum(n)>> >>) :
               key \in {"minimum", "exclusiveMinimum", "maximum", "exclusiveMaximum"},
               n \in IntegerBounds }

CompileSchemas ==
    FeatureSchemas \cup PropertySchemas \cup RefSchemas \cup PatternSchemas \cup IntegerSchemas

\* const converter = new SchemaConverter({})
InitCompile ==
    /\ schema = Undefined
    /\ rules = ("space" :> SPACE_RULE)
    /\ refs = <<>>
    /\ refsBeingResolved = {}
    /\ propOrder = <<>>
    /\ dotall \in BOOLEAN
    /\ pc = "new"
    /\ call = <<>>
    /\ ret = ""
    /\ err = NoError
    /\ grammar = <<>>
    /\ writes = <<>>
    /\ visits = <<>>
    /\ ncalls = 0
    /\ Constructed

\* converter.resolveRefs(schema), for the schema the caller passes
ResolveRefsStep ==
    /\ pc = "new"
    /\ \E s \in CompileSchemas :
          /\ schema' = s
          /\ \E st \in {ResolveRefs(Conv, s)} :
                /\ Store(st)
                /\ pc' = IF st.err # NoError THEN "failed" ELSE "resolved"
    /\ call' = <<"resolveRefs">>
    /\ ncalls' = ncalls + 1
    /\ UNCHANGED <<propOrder, dotall, grammar>>
    /\ UNCHANGED instance

\* converter.visit(schema, "")
VisitStep ==
    /\ pc = "resolved"
    /\ \E st \in {Visit(Conv, schema, "", 1)} :
          /\ Store(st)
          /\ pc' = IF st.err = NeverReturns THEN "visiting"
                   ELSE IF st.err # NoError THEN "failed"
                   ELSE "visited"
    /\ call' = <<"visit">>
    /\ ncalls' = ncalls + 1
    /\ UNCHANGED <<propOrder, dotall, schema, grammar>>
    /\ UNCHANGED instance

\* return converter.formatGrammar()
FormatGrammarStep ==
    /\ pc = "visited"
    /\ grammar' = FormatGrammar(rules)
    /\ pc' = "done"
    /\ call' = <<"formatGrammar">>
    /\ ncalls' = ncalls + 1
    /\ UNCHANGED <<rules, refs, refsBeingResolved, propOrder, dotall, schema, ret, err, writes, visits>>
    /\ UNCHANGED instance

NextCompile == ResolveRefsStep \/ VisitStep \/ FormatGrammarStep

SpecCompile == InitCompile /\ [][NextCompile]_vars

(***************************************************************************)
(* Plain string order: the order Array.prototype.sort() gives with no      *)
(* comparator, by UTF-16 code unit.                                        *)
(***************************************************************************)
PlainLess(a, b) ==
    LET shorter == IF Len(a) < Len(b) THEN Len(a) ELSE Len(b)
        differ == { i \in 1..shorter : CharAt(a, i) # CharAt(b, i) }
    IN  IF differ # {}
        THEN CharCode(CharAt(a, First(differ))) < CharCode(CharAt(b, First(differ)))
        ELSE Len(a) < Len(b)

(***************************************************************************)
(* C1.  addRule(name, body) returns a key k with table[k] = body afterwards,*)
(* where k is the escaped name if that slot was free or already held body, *)
(* and otherwise escapedName+i for the smallest i >= 0 whose slot is free  *)
(* or already holds body; nothing else in the table changes, and repeating *)
(* the call returns the same k and leaves the table unchanged.             *)
(***************************************************************************)
SlotAccepts(table, k, body) == k \notin DOMAIN table \/ table[k] = body

ContractKey(table, name, body) ==
    LET esc == ReplaceInvalidRuleChars(name) IN
    IF SlotAccepts(table, esc, body) THEN esc
    ELSE LET i == CHOOSE n \in 0..Cardinality(DOMAIN table) :
                      /\ SlotAccepts(table, esc \o ToString(n), body)
                      /\ \A m \in 0..(n - 1) : ~SlotAccepts(table, esc \o ToString(m), body)
         IN  esc \o ToString(i)

C1_AddRuleContract ==
    [][pc' = "addRule" =>
          LET name == call'[1]
              body == call'[2]
              k == ContractKey(rules, name, body)
          IN  /\ ret' = k
              /\ rules' = WriteKey(rules, k, body)
              /\ AddRuleKey(rules', name, body) = k
              /\ WriteKey(rules', k, body) = rules']_vars

(***************************************************************************)
(* C2.  Across any sequence of addRule, addPrimitive and visit calls a     *)
(* rule is never removed and its body never changes once set (the initial  *)
(* space rule included), and no two distinct rule names registered under   *)
(* the same base name hold identical bodies.                               *)
(***************************************************************************)
C2_EveryWriteKeeps ==
    /\ "space" \in DOMAIN rules /\ rules["space"] = SPACE_RULE
    /\ \A i \in DOMAIN writes :
          /\ writes[i].had => writes[i].old = writes[i].rule
          /\ writes[i].key \in DOMAIN rules
          /\ rules[writes[i].key] = writes[i].rule
    /\ \A i, j \in DOMAIN writes :
          (writes[i].base = writes[j].base /\ writes[i].rule = writes[j].rule)
              => writes[i].key = writes[j].key

C2_RulesAreStable ==
    /\ []C2_EveryWriteKeeps
    /\ [][\A k \in DOMAIN rules : k \in DOMAIN rules' /\ rules'[k] = rules[k]]_vars

\* after a visit call: a name collision was resolved by a suffix, and a rule
\* was registered a second time
C2_Witness ==
    /\ pc = "visit"
    /\ \E i \in DOMAIN writes : writes[i].key # writes[i].base
    /\ \E i \in DOMAIN writes : writes[i].had

(***************************************************************************)
(* C3.  formatGrammar returns exactly one line `<name> ::= <body>` for     *)
(* each rule, the lines in ascending order of rule name as a plain string  *)
(* sort of the names gives it.                                             *)
(***************************************************************************)
C3_PlainSortedLines ==
    pc = "formatGrammar" =>
        /\ Len(grammar) = Cardinality(DOMAIN rules)
        /\ \A k \in DOMAIN rules :
              \E i \in 1..Len(grammar) : grammar[i] = k \o " ::= " \o rules[k] \o "\n"
        /\ \A i, j \in 1..Len(grammar) :
              i < j => \E a, b \in DOMAIN rules :
                          /\ grammar[i] = a \o " ::= " \o rules[a] \o "\n"
                          /\ grammar[j] = b \o " ::= " \o rules[b] \o "\n"
                          /\ PlainLess(a, b)

(***************************************************************************)
(* C4.  For every schema on which compile succeeds the output has a space  *)
(* rule and a root rule, and the root rule is the rule emitted for the     *)
(* top-level node: no rule emitted for a nested sub-schema (whatever its   *)
(* property name, the empty name included) is stored under the name root.  *)
(***************************************************************************)
C4_RootIsTopLevelRule ==
    pc \in {"visited", "done"} =>
        /\ "space" \in DOMAIN rules
        /\ "root" \in DOMAIN rules
        /\ ret = "root"
        /\ \A i \in DOMAIN visits : visits[i].depth > 1 => visits[i].key # "root"

(***************************************************************************)
(* C5.  No rule built for a user-derived name is stored under a reserved   *)
(* primitive or format name: each name of the catalog that is present in   *)
(* the Rule Table maps to its catalog body, so the dependencies of a       *)
(* registered primitive resolve to the catalog rules.                      *)
(***************************************************************************)
CatalogNames == DOMAIN PRIMITIVE_RULES \cup DOMAIN STRING_FORMAT_RULES

C5_ReservedNamesHoldCatalogRules ==
    \A k \in DOMAIN rules \cap CatalogNames : rules[k] = ReadDependency(k).content

(***************************************************************************)
(* C6.  After resolveRefs(schema) returns without error every $ref         *)
(* occurring anywhere in the schema tree, also one below a node that       *)
(* itself carries a $ref, has an entry in the reference map, and no later  *)
(* visit looks up an unresolved reference.                                 *)
(***************************************************************************)
RECURSIVE RefsIn(_)
\* the $ref strings of all objects of a JSON tree
RefsIn(x) ==
    (IF IsObject(x) /\ Get(x, "$ref").t = "string" THEN {Get(x, "$ref").v} ELSE {})
    \cup UNION { RefsIn(Members(x)[i][2]) : i \in 1..Len(Members(x)) }

C6_EveryRefIsResolved ==
    /\ pc \in {"resolved", "visited", "done"} => RefsIn(schema) \subseteq DOMAIN refs
    /\ pc = "failed" /\ call = <<"visit">> => err # "TypeError: Cannot read properties of undefined"

(***************************************************************************)
(* C7.  resolveRefs raises an error for every $ref it encounters that      *)
(* cannot be resolved inside the root schema (a remote reference, any      *)
(* reference not of the form #/..., a #/... pointer with a path segment    *)
(* missing from the node reached so far), and records no such reference.   *)
(***************************************************************************)
RECURSIVE PointerResolves(_, _, _)
\* a JSON pointer resolves when every segment is a member of the node reached
PointerResolves(target, selectors, i) ==
    \/ i > Len(selectors)
    \/ /\ HasOwn(target, selectors[i])
       /\ PointerResolves(OwnValue(target, selectors[i]), selectors, i + 1)

Resolvable(root, ref) ==
    StartsWith(ref, "#/") /\ PointerResolves(root, Tail(Split(ref, "/")), 1)

RECURSIVE ExposedRefs(_)
\* the $ref strings at nodes none of whose ancestors carries a $ref: the walk
\* reaches each of them unless it has failed before
ExposedRefs(x) ==
    IF IsObject(x) /\ Get(x, "$ref").t = "string" THEN {Get(x, "$ref").v}
    ELSE UNION { ExposedRefs(Members(x)[i][2]) : i \in 1..Len(Members(x)) }

C7_UnresolvableRefsRaise ==
    pc # "new" =>
        /\ \A r \in DOMAIN refs : Resolvable(schema, r)
        /\ (\E r \in ExposedRefs(schema) : ~Resolvable(schema, r))
               => pc = "failed" /\ call = <<"resolveRefs">>

(***************************************************************************)
(* C8.  compile terminates on every finite schema, also when its local     *)
(* $refs form cycles (a definition referring to itself, mutually referring *)
(* definitions, chains of pure $ref aliases): the nesting of visit calls   *)
(* never exhausts the stack, and compile returns or throws in the end with *)
(* a finite rule set.                                                      *)
(***************************************************************************)
StackOverflow == "RangeError: Maximum call stack size exceeded"

\* the call runs on one thread that is never suspended: whenever a step of
\* the compile is pending, the position moves on
Advance ==
    /\ pc \in {"new", "resolved", "visited"}
    /\ pc' \in {"resolved", "visiting", "visited", "done", "failed"}
    /\ UNCHANGED instance

SpecCompileFair == SpecCompile /\ WF_pc(Advance)

C8_CompileTerminates ==
    /\ [](err # StackOverflow /\ IsFiniteSet(DOMAIN rules))
    /\ <>(pc \in {"done", "failed"})

(***************************************************************************)
(* C9.  visit applies exactly one construction strategy to each node: the  *)
(* first that matches in the order $ref, oneOf/anyOf, array-valued type,   *)
(* const, enum, object-like, allOf, array-like, pattern, uuid format,      *)
(* date/time/date-time format, minLength/maxLength, bounded integer,       *)
(* generic object or empty schema, primitive type.                         *)
(***************************************************************************)
StrategyOrder ==
    <<"ref", "union", "typeArray", "const", "enum", "object", "allOf", "array",
      "pattern", "uuid", "format", "length", "integerRange", "genericObject", "primitive">>

Matches(strategy, s) ==
    CASE strategy = "ref" -> Has(s, "$ref")
      [] strategy = "union" -> Has(s, "oneOf") \/ Has(s, "anyOf")
      [] strategy = "typeArray" -> IsArray(Get(s, "type"))
      [] strategy = "const" -> Has(s, "const")
      [] strategy = "enum" -> Has(s, "enum")
      [] strategy = "object" ->
            /\ ~Has(s, "type") \/ Is(s, "type", "object")
            /\ \/ Has(s, "properties")
               \/ Has(s, "additionalProperties") /\ Get(s, "additionalProperties") # JBool(TRUE)
      [] strategy = "allOf" ->
            /\ Has(s, "allOf")
            /\ ~Has(s, "type") \/ Is(s, "type", "object") \/ Is(s, "type", "string")
      [] strategy = "array" ->
            /\ Has(s, "items") \/ Has(s, "prefixItems")
            /\ ~Has(s, "type") \/ Is(s, "type", "array")
      [] strategy = "pattern" ->
            Has(s, "pattern") /\ (~Has(s, "type") \/ Is(s, "type", "string"))
      [] strategy = "uuid" ->
            /\ \E v \in {"uuid", "uuid1", "uuid2", "uuid3", "uuid4", "uuid5"} : Is(s, "format", v)
            /\ ~Has(s, "type") \/ Is(s, "type", "string")
      [] strategy = "format" ->
            /\ \E v \in {"date", "time", "date-time"} : Is(s, "format", v)
            /\ ~Has(s, "type") \/ Is(s, "type", "string")
      [] strategy = "length" ->
            Is(s, "type", "string") /\ (Has(s, "minLength") \/ Has(s, "maxLength"))
      [] strategy = "integerRange" ->
            /\ Is(s, "type", "integer")
            /\ \E k \in {"minimum", "maximum", "exclusiveMinimum", "exclusiveMaximum"} : Has(s, k)
      [] strategy = "genericObject" -> Is(s, "type", "object") \/ Members(s) = <<>>
      [] OTHER -> TRUE

FirstMatch(s) ==
    StrategyOrder[CHOOSE i \in 1..Len(StrategyOrder) :
                     /\ Matches(StrategyOrder[i], s)
                     /\ \A j \in 1..(i - 1) : ~Matches(StrategyOrder[j], s)]

\* the rule a finished visit registered is the one its strategy builds,
\* for the strategies whose rule is read off the node
BuiltBy(strategy, s, body) ==
    CASE strategy = "const" -> body = GenerateConstantRule(Get(s, "const")) \o " space"
      [] strategy = "enum" -> StartsWith(body, "(") /\ EndsWith(body, ") space")
      [] strategy = "object" -> StartsWith(body, "\"{\" space ")
      [] strategy = "array" -> StartsWith(body, "\"[\" space ")
      [] strategy = "uuid" -> body = PRIMITIVE_RULES["uuid"].content
      [] strategy = "format" -> body = Get(s, "format").v \o "-string"
      [] strategy = "length" -> StartsWith(body, "\"\\\"\" char")
      [] strategy = "genericObject" -> body = "object"
      [] strategy = "primitive" -> body = PRIMITIVE_RULES[Get(s, "type").v].content
      [] OTHER -> TRUE

C9_FirstMatchingStrategy ==
    \A i \in DOMAIN visits :
        /\ visits[i].branch = FirstMatch(visits[i].schema)
        /\ visits[i].key # "" =>
              BuiltBy(FirstMatch(visits[i].schema), visits[i].schema, rules[visits[i].key])

\* a finished visit of a node that two strategies other than the fallback match
C9_Witness ==
    \E i \in DOMAIN visits :
        /\ visits[i].key # ""
        /\ Cardinality({ k \in 1..(Len(StrategyOrder) - 1) :
                            Matches(StrategyOrder[k], visits[i].schema) }) >= 2

(***************************************************************************)
(* C10.  For every node that matches none of the branches 1-14 and whose   *)
(* type is not one of string, number, integer, boolean, null, visit raises *)
(* the unrecognized-schema error and registers no rule for that node.      *)
(***************************************************************************)
PrimitiveKinds == {"string", "number", "integer", "boolean", "null"}

C10_UnrecognizedSchemaRaises ==
    \A i \in DOMAIN visits :
        (/\ FirstMatch(visits[i].schema) = "primitive"
         /\ ~\E kind \in PrimitiveKinds : Is(visits[i].schema, "type", kind))
        => /\ pc = "failed"
           /\ StartsWith(err, "Unrecognized schema")
           /\ Len(writes) < visits[i].first

(***************************************************************************)
(* The specifications of a given family of schemas: the schema is one of   *)
(* the family and convertJsonSchemaToGrammar(schema) runs on it with the   *)
(* default options.  The first family is the objects with required,        *)
(* optional and additional properties.                                     *)
(***************************************************************************)
\* the declared properties of an object schema, in declaration order
ObjectProperties == {<<>>, <<"b">>, <<"b", "ab">>, <<"b", "ab", "a">>, <<"b", "*">>}

AdditionalChoices == {Undefined, JBool(FALSE), JBool(TRUE), BooleanSchema}

\* {type: "object", properties: {...}, required: [...], additionalProperties}
ObjectSchema(names, required, additional) ==
    JObj(<< <<"type", JStr("object")>>,
            <<"properties", JObj([i \in 1..Len(names) |-> <<names[i], BooleanSchema>>])>>,
            <<"required", JArr([i \in 1..Len(required) |-> JStr(required[i])])>> >>
         \o (IF IsDefined(additional) THEN << <<"additionalProperties", additional>> >>
             ELSE <<>>))

ObjectSchemas ==
    { ObjectSchema(c[1], SelectSeq(c[1], LAMBDA k : k \in c[2]), c[3]) :
        c \in { d \in ObjectProperties \X (SUBSET {"a", "ab", "b", "*"}) \X AdditionalChoices :
                  d[2] \subseteq { d[1][i] : i \in 1..Len(d[1]) } } }

\* const converter = new SchemaConverter(options), options = {}
InitGiven(schemas) ==
    /\ schema \in schemas
    /\ rules = ("space" :> SPACE_RULE)
    /\ refs = <<>>
    /\ refsBeingResolved = {}
    /\ propOrder = <<>>
    /\ dotall = FALSE
    /\ pc = "given"
    /\ call = <<>>
    /\ ret = ""
    /\ err = NoError
    /\ grammar = <<>>
    /\ writes = <<>>
    /\ visits = <<>>
    /\ ncalls = 0
    /\ Constructed

\* converter.resolveRefs(schema)
ResolveRefsGiven ==
    /\ pc = "given"
    /\ \E st \in {ResolveRefs(Conv, schema)} :
          /\ Store(st)
          /\ pc' = IF st.err # NoError THEN "failed" ELSE "resolved"
    /\ call' = <<"resolveRefs">>
    /\ ncalls' = ncalls + 1
    /\ UNCHANGED <<propOrder, dotall, schema, grammar>>
    /\ UNCHANGED instance

NextGiven == ResolveRefsGiven \/ VisitStep \/ FormatGrammarStep

SpecObjects == InitGiven(ObjectSchemas) /\ [][NextGiven]_vars

(***************************************************************************)
(* The family of the objects whose additional keys are restricted by the   *)
(* names of their declared properties (the only caller of _notStrings).    *)
(***************************************************************************)
ExcludedNames == {"a", "ab", "abc", "ac", "b", "ba"}

\* the lists of one or two declared names
ExcludedLists ==
    { <<n>> : n \in ExcludedNames }
    \cup { <<c[1], c[2]>> : c \in { d \in ExcludedNames \X ExcludedNames : d[1] # d[2] } }

ExclusionSchemas == { ObjectSchema(names, <<>>, JBool(TRUE)) : names \in ExcludedLists }

SpecExclusion == InitGiven(ExclusionSchemas) /\ [][NextGiven]_vars

(***************************************************************************)
(* The family of the integer schemas with bounds, inclusive or exclusive,  *)
(* on both sides or on one.                                                *)
(***************************************************************************)
RangeBounds == {-105, -12, -3, 0, 7, 25, 105, 130}

\* {type: "integer", [lower]: a, [upper]: b}
TwoSided(lower, a, upper, b) ==
    JObj(<< <<"type", JStr("integer")>>, <<lower, JNum(a)>>, <<upper, JNum(b)>> >>)

\* {type: "integer", [key]: n}
OneSided(key, n) == JObj(<< <<"type", JStr("integer")>>, <<key, JNum(n)>> >>)

RangeSchemas ==
    { TwoSided(c[1], c[2], c[3], c[4]) :
        c \in { d \in {"minimum", "exclusiveMinimum"} \X RangeBounds
                      \X {"maximum", "exclusiveMaximum"} \X RangeBounds : d[2] <= d[4] } }
    \cup { OneSided(key, n) :
             key \in {"minimum", "exclusiveMinimum", "maximum", "exclusiveMaximum"},
             n \in RangeBounds }

SpecRanges == InitGiven(RangeSchemas) /\ [][NextGiven]_vars

(***************************************************************************)
(* The family of the arrays with one items schema and optional minItems    *)
(* and maxItems.                                                           *)
(***************************************************************************)
ItemCounts == {Undefined, JNum(0), JNum(1), JNum(2), JNum(3)}

\* {type?: "array", items: items, minItems?: m, maxItems?: M}
ArraySchema(type, items, minItems, maxItems) ==
    JObj((IF IsDefined(type) THEN << <<"type", type>> >> ELSE <<>>)
         \o << <<"items", items>> >>
         \o (IF IsDefined(minItems) THEN << <<"minItems", minItems>> >> ELSE <<>>)
         \o (IF IsDefined(maxItems) THEN << <<"maxItems", maxItems>> >> ELSE <<>>))

ArraySchemas ==
    { ArraySchema(c[1], c[2], c[3], c[4]) :
        c \in { d \in {Undefined, JStr("array")} \X {BooleanSchema, StringSchema}
                      \X ItemCounts \X ItemCounts :
                  IsDefined(d[3]) /\ IsDefined(d[4]) => d[3].v <= d[4].v } }

SpecArrays == InitGiven(ArraySchemas) /\ [][NextGiven]_vars

(***************************************************************************)
(* What a grammar accepts.  A rule body is read as GBNF: literals,         *)
(* character classes, rule names, groups, alternatives and the postfix     *)
(* operators ? * + {m,n}.  An input is a sequence of symbols, each one     *)
(* character or the name of a rule taken as a unit (an opaque rule, which  *)
(* accepts the one symbol that is its name).  No input contains white      *)
(* space, so `space` accepts the empty string only.                        *)
(***************************************************************************)
Printable == CharsOf(AsciiLow) \cup CharsOf(AsciiHigh)

RECURSIVE ClosingAt(_, _, _)
\* the position of the first `close` at or after i that no backslash escapes
ClosingAt(s, i, close) ==
    IF i > Len(s) THEN Len(s) + 1
    ELSE IF CharAt(s, i) = "\\" THEN ClosingAt(s, i + 2, close)
    ELSE IF CharAt(s, i) = close THEN i
    ELSE ClosingAt(s, i + 1, close)

RECURSIVE NameEnd(_, _)
\* the position after the run of name characters that starts at i
NameEnd(s, i) ==
    IF i <= Len(s) /\ CharAt(s, i) \in RuleChars THEN NameEnd(s, i + 1) ELSE i

RECURSIVE Unescaped(_, _)
\* the characters a literal or a class spells, escapes resolved; a character
\* written \xHH or \n, \r, \t is no printable one and is spelt "\n", and an
\* unescaped "-" is spelt "a-z"
Unescaped(text, i) ==
    IF i > Len(text) THEN <<>>
    ELSE IF CharAt(text, i) = "\\"
    THEN IF CharAt(text, i + 1) = "x"
         THEN <<"\n">> \o Unescaped(text, i + 4)
         ELSE <<IF CharAt(text, i + 1) \in {"n", "r", "t"} THEN "\n"
                ELSE CharAt(text, i + 1)>> \o Unescaped(text, i + 2)
    ELSE <<IF CharAt(text, i) = "-" THEN "a-z" ELSE CharAt(text, i)>>
         \o Unescaped(text, i + 1)

\* the characters of a literal, given what it spells: there "-" stands for
\* itself
LiteralChars(chars) ==
    <<>> \o [k \in 1..Len(chars) |-> IF chars[k] = "a-z" THEN "-" ELSE chars[k]]

\* the printable characters by code: the one of code n is at n - 31 (the
\* grave accent, of code 96, is left out)
CharsByCode ==
    [k \in 1..Len(AsciiLow) |-> CharAt(AsciiLow, k)] \o <<"\n">>
    \o [k \in 1..Len(AsciiHigh) |-> CharAt(AsciiHigh, k)]

\* the characters a class [...] lists, given what it spells
ClassMembers(chars) ==
    Printable
    \cap UNION { IF chars[k] = "a-z"
                 THEN (IF k = 1 \/ k = Len(chars) THEN {"-"} ELSE {})
                 ELSE IF k + 2 <= Len(chars) /\ chars[k + 1] = "a-z"
                         /\ chars[k] \in Printable /\ chars[k + 2] \in Printable
                 THEN { CharsByCode[n - 31] : n \in CharCode(chars[k])..CharCode(chars[k + 2]) }
                 ELSE {chars[k]}
                 : k \in 1..Len(chars) }

\* the counts of a postfix operator: at least lo, at most hi (-1: no limit)
Counts(k, nums) ==
    CASE k = "?" -> [lo |-> 0, hi |-> 1]
      [] k = "*" -> [lo |-> 0, hi |-> -1]
      [] k = "+" -> [lo |-> 1, hi |-> -1]
      [] k = "{}" -> [lo |-> IF nums[1] = "" THEN 0 ELSE ParseInt(nums[1]),
                      hi |-> IF Len(nums) = 1 THEN ParseInt(nums[1])
                             ELSE IF nums[2] = "" THEN -1 ELSE ParseInt(nums[2])]
      [] OTHER -> [lo |-> 1, hi |-> 1]

\* a token: its kind k, its text v, and what the text stands for, chars
\* being what it spells and nums its parts between commas: the characters of
\* a literal, the set of a class, the counts of a postfix operator
Token(k, text, chars, nums) ==
    [k |-> k, v |-> text,
     chars |-> IF k = "literal" THEN LiteralChars(chars) ELSE <<>>,
     set |-> IF k # "class" THEN {}
             ELSE IF StartsWith(text, "^") THEN Printable \ ClassMembers(Tail(chars))
             ELSE ClassMembers(chars),
     count |-> Counts(k, nums)]

\* the kind of the token that starts at position i of a rule body, the
\* positions from and to of its text and the position n after it
TokenAt(s, i) ==
    CASE CharAt(s, i) = "\"" ->
            [k |-> "literal", from |-> i + 1, to |-> ClosingAt(s, i + 1, "\"") - 1,
             n |-> ClosingAt(s, i + 1, "\"") + 1]
      [] CharAt(s, i) = "[" ->
            [k |-> "class", from |-> i + 1, to |-> ClosingAt(s, i + 1, "]") - 1,
             n |-> ClosingAt(s, i + 1, "]") + 1]
      [] CharAt(s, i) = "{" ->
            [k |-> "{}", from |-> i + 1, to |-> ClosingAt(s, i + 1, "}") - 1,
             n |-> ClosingAt(s, i + 1, "}") + 1]
      [] CharAt(s, i) \in {"(", ")", "|", "?", "*", "+"} ->
            [k |-> CharAt(s, i), from |-> i, to |-> i - 1, n |-> i + 1]
      [] CharAt(s, i) \in RuleChars ->
            [k |-> "name", from |-> i, to |-> NameEnd(s, i) - 1, n |-> NameEnd(s, i)]
      [] OTHER -> [k |-> "?!", from |-> i, to |-> i, n |-> i + 1]

\* the token t found by TokenAt in s
TokenOf(s, t) ==
    (CHOOSE v \in {
        (CHOOSE u \in { Token(t.k, text, chars, nums)
                        : chars \in {Unescaped(text, 1)}, nums \in {Split(text, ",")} } : TRUE)
        : text \in {SubSeq(s, t.from, t.to)} } : TRUE)

RECURSIVE Tokens(_, _)
\* the tokens of a rule body from position i on
Tokens(s, i) ==
    CASE i > Len(s) -> <<>>
      [] i <= Len(s) /\ CharAt(s, i) \in {" ", "\n", "\t"} -> Tokens(s, i + 1)
      [] OTHER -> (CHOOSE v \in { <<TokenOf(s, t)>> \o Tokens(s, t.n)
                                  : t \in {TokenAt(s, i)} } : TRUE)

RECURSIVE GroupEnd(_, _, _)
\* the position of the ")" that closes the group entered before position i
GroupEnd(toks, i, open) ==
    IF i > Len(toks) THEN i
    ELSE IF toks[i].k = ")" THEN (IF open = 0 THEN i ELSE GroupEnd(toks, i + 1, open - 1))
    ELSE IF toks[i].k = "(" THEN GroupEnd(toks, i + 1, open + 1)
    ELSE GroupEnd(toks, i + 1, open)

\* the position after the item (a token, or a whole group) at position i
ItemEnd(toks, i) == IF toks[i].k = "(" THEN GroupEnd(toks, i + 1, 0) + 1 ELSE i + 1

RECURSIVE SequenceEnd(_, _)
\* the position of the "|" or ")" that ends the sequence position i is in
SequenceEnd(toks, i) ==
    IF i > Len(toks) \/ toks[i].k \in {"|", ")"} THEN i
    ELSE SequenceEnd(toks, ItemEnd(toks, i))

\* a rule body read: its tokens, for each position the one after the item
\* there (next), whether a postfix operator follows the item (post), and the
\* end of the sequence the position is in (stop)
Parsed(body) ==
    (CHOOSE v \in {
        [toks |-> toks,
         next |-> <<>> \o [i \in 1..Len(toks) |-> ItemEnd(toks, i)],
         post |-> <<>> \o [i \in 1..Len(toks) |->
                     /\ ItemEnd(toks, i) <= Len(toks)
                     /\ toks[ItemEnd(toks, i)].k \in {"?", "*", "+", "{}"}],
         stop |-> <<>> \o [i \in 1..(Len(toks) + 1) |-> SequenceEnd(toks, i)]]
        : toks \in {Tokens(body, 1)} } : TRUE)

RECURSIVE ParsedRules(_, _)
\* the rules called names of the table, read
ParsedRules(table, names) ==
    IF names = {} THEN <<>>
    ELSE (CHOOSE v \in { (n :> Parsed(table[n])) @@ ParsedRules(table, names \ {n})
                         : n \in {CHOOSE m \in names : TRUE} } : TRUE)

\* the rule table read
Tokenised(table) == ParsedRules(table, DOMAIN table)

RECURSIVE AfterAlternatives(_, _, _, _, _, _)
RECURSIVE AfterSequence(_, _, _, _, _, _)
RECURSIVE AfterAtom(_, _, _, _, _, _)
RECURSIVE AfterRepeats(_, _, _, _, _, _, _, _)

\* In all of these g is the rule table read, opaque the names taken as units,
\* w the input, r the rule being read and P a set of positions of w (the
\* number of symbols read so far).  The result is the set of positions that
\* can be reached from a position of P.  UNION {e : Q \in {S}} is the set e
\* with Q standing for the set S.

\* reading the item at position i exactly once
AfterAtom(g, opaque, w, r, i, P) ==
    CASE P = {} -> {}
      [] r.toks[i].k = "literal" ->
            { p + Len(r.toks[i].chars) :
                p \in { q \in P : /\ q + Len(r.toks[i].chars) <= Len(w)
                                  /\ \A k \in 1..Len(r.toks[i].chars) :
                                        w[q + k] = r.toks[i].chars[k] } }
      [] r.toks[i].k = "class" ->
            { p + 1 : p \in { q \in P : q < Len(w) /\ w[q + 1] \in r.toks[i].set } }
      [] r.toks[i].k = "name" /\ r.toks[i].v = "space" -> P
      [] r.toks[i].k = "name" /\ r.toks[i].v \in opaque ->
            { p + 1 : p \in { q \in P : q < Len(w) /\ w[q + 1] = r.toks[i].v } }
      [] r.toks[i].k = "name" /\ r.toks[i].v \in DOMAIN g ->
            AfterAlternatives(g, opaque, w, g[r.toks[i].v], 1, P)
      [] r.toks[i].k = "(" -> AfterAlternatives(g, opaque, w, r, i + 1, P)
      [] OTHER -> {}

\* reading the item at position i between lo and hi more times, done being
\* the positions already known to be reached after enough repetitions
AfterRepeats(g, opaque, w, r, i, P, c, done) ==
    IF P = {} \/ c.hi = 0 THEN done \cup (IF c.lo <= 0 THEN P ELSE {})
    ELSE IF c.lo <= 0 /\ P \subseteq done THEN done
    ELSE UNION { AfterRepeats(g, opaque, w, r, i, Q,
                              [lo |-> c.lo - 1, hi |-> IF c.hi < 0 THEN -1 ELSE c.hi - 1], D)
                 : Q \in {AfterAtom(g, opaque, w, r, i, P)},
                   D \in {done \cup (IF c.lo <= 0 THEN P ELSE {})} }

\* reading the items from position i up to the end of their sequence
AfterSequence(g, opaque, w, r, i, P) ==
    IF i = r.stop[i] \/ P = {} THEN P
    ELSE IF r.post[i]
    THEN UNION { AfterSequence(g, opaque, w, r, r.next[i] + 1, Q)
                 : Q \in {AfterRepeats(g, opaque, w, r, i, P, r.toks[r.next[i]].count, {})} }
    ELSE UNION { AfterSequence(g, opaque, w, r, r.next[i], Q)
                 : Q \in {AfterAtom(g, opaque, w, r, i, P)} }

\* reading one of the alternatives that start at position i
AfterAlternatives(g, opaque, w, r, i, P) ==
    AfterSequence(g, opaque, w, r, i, P)
    \cup (IF r.stop[i] <= Len(r.toks) /\ r.toks[r.stop[i]].k = "|"
          THEN AfterAlternatives(g, opaque, w, r, r.stop[i] + 1, P)
          ELSE {})

\* whether the rule called name accepts the whole of w
Accepts(g, opaque, name, w) ==
    /\ name \in DOMAIN g
    /\ Len(w) \in AfterAlternatives(g, opaque, w, g[name], 1, {0})

\* a string as the sequence of its characters
Symbols(text) == <<>> \o [k \in 1..Len(text) |-> CharAt(text, k)]

(***************************************************************************)
(* LlamaCppLanguageModel (src/src/llama-cpp-language-model.ts): one        *)
(* instance, called any number of times by code that does not wait for one *)
(* call before making the next.                                            *)
(*                                                                         *)
(* JavaScript runs one continuation at a time.  A call runs to its first   *)
(* await; the continuation of an await is queued as a microtask when the   *)
(* awaited promise settles (at once when it has settled already), and the  *)
(* microtasks run first in first out.  The callbacks of the native binding *)
(* run only when no microtask is left.  The code that uses the instance    *)
(* runs the same way: it makes its calls one after the other while it      *)
(* runs, and runs again in a task of its own, or as a microtask when a     *)
(* promise it may be awaiting settles (a call returns or is rejected, a    *)
(* stream has a part to read) or after an await of its own.                *)
(*                                                                         *)
(* loads[k] is the k-th loadModel() call: native is the state of the       *)
(* promise loadModel returned, promise the state of the async function     *)
(* stored in initPromise (lines 153-163), handle the handle the binding    *)
(* gave.  The binding gives a handle it has not given before: the k-th     *)
(* load gives k.  An invocation is [op, at, awaits, handle, generation,    *)
(* parts, closed]: at is where it stands, awaits the load whose promise it *)
(* awaits, handle the handle ensureModelLoaded returned to it, generation  *)
(* the state of the promise generate or generateStream returned, parts     *)
(* what its stream has enqueued.                                           *)
(***************************************************************************)
MaxInvocations == 3

MaxTokens == 2

Generations == {"doGenerate", "doStream"}

Invocation(op, at, awaits, handle) ==
    [op |-> op, at |-> at, awaits |-> awaits, handle |-> handle,
     generation |-> "none", parts |-> <<>>, closed |-> FALSE]

Part(type, id) == [type |-> type, id |-> id]

\* the continuation of the user's code, and the queue with it added
User == <<"user", Null>>

\* no handle is ever reported loaded
NeverLoaded(handle) == FALSE

\* isModelLoaded(handle)
IsModelLoaded(handle) == handle \in loaded

\* the invocations suspended on the promise of load k, in the order in which
\* they began to wait
Waiting(k) ==
    SelectSeq([c \in 1..Len(invocations) |-> <<"call", c>>],
              LAMBDA m : /\ invocations[m[2]].at \in {"await-init", "await-own"}
                         /\ invocations[m[2]].awaits = k)

\* lines 153-165 run by invocation c: the async function starts, calls
\* loadModel and is stored in initPromise, and ensureModelLoaded awaits it;
\* others is what becomes of the microtask queue
StartLoad(c, record, others) ==
    /\ loads' = Append(loads, [native |-> "pending", promise |-> "pending", handle |-> Null])
    /\ initPromise' = Len(loads) + 1
    /\ invocations' = [record EXCEPT ![c].at = "await-own", ![c].awaits = Len(loads) + 1]
    /\ microtasks' = others
    /\ UNCHANGED <<modelHandle, loaded, unloads>>

\* doGenerate(options) or doStream(options) is called: ensureModelLoaded runs
\* to its first await or to its return (lines 142-165)
Generate(op) ==
    /\ caller = "running"
    /\ Len(invocations) < MaxInvocations
    /\ LET c == Len(invocations) + 1
       IN  IF modelHandle # Null /\ IsModelLoaded(modelHandle)
           THEN /\ invocations' = Append(invocations, Invocation(op, "ensured", Null, modelHandle))
                /\ microtasks' = Append(microtasks, <<"call", c>>)
                /\ UNCHANGED <<modelHandle, initPromise, loads, loaded, unloads>>
           ELSE IF initPromise # Null
           THEN /\ invocations' = Append(invocations, Invocation(op, "await-init", initPromise, Null))
                /\ microtasks' = IF loads[initPromise].promise = "pending" THEN microtasks
                                 ELSE Append(microtasks, <<"call", c>>)
                /\ UNCHANGED <<modelHandle, initPromise, loads, loaded, unloads>>
           ELSE StartLoad(c, Append(invocations, Invocation(op, "start", Null, Null)), microtasks)
    /\ UNCHANGED <<caller, converter>>

\* dispose() (lines 175-180)
Dispose ==
    /\ caller = "running"
    /\ Len(invocations) < MaxInvocations
    /\ invocations' = Append(invocations, Invocation("dispose", "returned", Null, Null))
    /\ IF modelHandle # Null
       THEN /\ unloads' = Append(unloads, modelHandle)
            /\ loaded' = loaded \ {modelHandle}
            /\ modelHandle' = Null
       ELSE UNCHANGED <<unloads, loaded, modelHandle>>
    /\ UNCHANGED <<initPromise, loads, microtasks>>
    /\ UNCHANGED <<caller, converter>>

\* the binding calls back the k-th loadModel: with a handle, or with an error
LoadSettles(k, ok) ==
    /\ caller = "idle"
    /\ microtasks = <<>>
    /\ k \in 1..Len(loads)
    /\ loads[k].native = "pending"
    /\ loads' = [loads EXCEPT ![k].native = IF ok THEN "resolved" ELSE "rejected",
                              ![k].handle = IF ok THEN k ELSE Null]
    /\ loaded' = IF ok THEN loaded \cup {k} ELSE loaded
    /\ microtasks' = << <<"load", k>> >>
    /\ UNCHANGED <<modelHandle, initPromise, unloads, invocations>>
    /\ UNCHANGED <<caller, converter>>

\* the async function of lines 153-163 resumes after `await loadModel(options)`:
\* it stores the handle, or throws what loadModel threw
LoadResumes ==
    /\ caller = "idle"
    /\ microtasks # <<>>
    /\ Head(microtasks)[1] = "load"
    /\ LET k == Head(microtasks)[2]
       IN  /\ modelHandle' = IF loads[k].native = "resolved" THEN loads[k].handle
                             ELSE modelHandle
           /\ loads' = [loads EXCEPT ![k].promise =
                           IF loads[k].native = "resolved" THEN "fulfilled" ELSE "rejected"]
           /\ microtasks' = Tail(microtasks) \o Waiting(k)
    /\ UNCHANGED <<initPromise, loaded, unloads, invocations>>
    /\ UNCHANGED <<caller, converter>>

\* ensureModelLoaded resumes after `await this.initPromise` of line 147
\* (lines 148-165)
EnsureResumes ==
    /\ caller = "idle"
    /\ microtasks # <<>>
    /\ Head(microtasks)[1] = "call"
    /\ LET c == Head(microtasks)[2]
       IN  /\ invocations[c].at = "await-init"
           /\ IF loads[invocations[c].awaits].promise = "rejected"
              THEN /\ invocations' = [invocations EXCEPT ![c].at = "ensure-threw"]
                   /\ microtasks' = Append(Tail(microtasks), <<"call", c>>)
                   /\ UNCHANGED <<modelHandle, initPromise, loads, loaded, unloads>>
              ELSE IF modelHandle # Null
              THEN /\ invocations' = [invocations EXCEPT ![c].at = "ensured",
                                                         ![c].handle = modelHandle]
                   /\ microtasks' = Append(Tail(microtasks), <<"call", c>>)
                   /\ UNCHANGED <<modelHandle, initPromise, loads, loaded, unloads>>
              ELSE StartLoad(c, invocations, Tail(microtasks))
    /\ UNCHANGED <<caller, converter>>

\* ensureModelLoaded resumes after `await this.initPromise` of line 165
\* (lines 166-172)
OwnLoadResumes ==
    /\ caller = "idle"
    /\ microtasks # <<>>
    /\ Head(microtasks)[1] = "call"
    /\ LET c == Head(microtasks)[2]
       IN  /\ invocations[c].at = "await-own"
           /\ IF loads[invocations[c].awaits].promise = "rejected"
              THEN /\ invocations' = [invocations EXCEPT ![c].at = "ensure-threw"]
                   /\ UNCHANGED initPromise
              ELSE /\ initPromise' = Null
                   /\ invocations' =
                        IF modelHandle = Null
                        THEN [invocations EXCEPT ![c].at = "ensure-threw"]
                        ELSE [invocations EXCEPT ![c].at = "ensured", ![c].handle = modelHandle]
           /\ microtasks' = Append(Tail(microtasks), <<"call", c>>)
    /\ UNCHANGED <<modelHandle, loads, loaded, unloads>>
    /\ UNCHANGED <<caller, converter>>

\* doGenerate or doStream resumes after `await this.ensureModelLoaded()` that
\* threw: the call is rejected (lines 185, 225)
Rejects ==
    /\ caller = "idle"
    /\ microtasks # <<>>
    /\ Head(microtasks)[1] = "call"
    /\ LET c == Head(microtasks)[2]
       IN  /\ invocations[c].at = "ensure-threw"
           /\ invocations' = [invocations EXCEPT ![c].at = "rejected"]
    /\ microtasks' = Append(Tail(microtasks), User)
    /\ UNCHANGED <<modelHandle, initPromise, loads, loaded, unloads>>
    /\ UNCHANGED <<caller, converter>>

\* doGenerate resumes with the handle and calls generate (lines 185-198)
DoGenerate ==
    /\ caller = "idle"
    /\ microtasks # <<>>
    /\ Head(microtasks)[1] = "call"
    /\ LET c == Head(microtasks)[2]
       IN  /\ invocations[c].at = "ensured"
           /\ invocations[c].op = "doGenerate"
           /\ invocations' = [invocations EXCEPT ![c].at = "generating",
                                                 ![c].generation = "pending"]
    /\ microtasks' = Tail(microtasks)
    /\ UNCHANGED <<modelHandle, initPromise, loads, loaded, unloads>>
    /\ UNCHANGED <<caller, converter>>

\* doStream resumes with the handle, builds the stream, whose start() enqueues
\* stream-start and text-start and calls generateStream, and returns the
\* stream (lines 225-296)
DoStream ==
    /\ caller = "idle"
    /\ microtasks # <<>>
    /\ Head(microtasks)[1] = "call"
    /\ LET c == Head(microtasks)[2]
       IN  /\ invocations[c].at = "ensured"
           /\ invocations[c].op = "doStream"
           /\ invocations' = [invocations EXCEPT
                                ![c].at = "generating",
                                ![c].generation = "pending",
                                ![c].parts = <<Part("stream-start", Null), Part("text-start", c)>>]
    /\ microtasks' = Append(Tail(microtasks), User)
    /\ UNCHANGED <<modelHandle, initPromise, loads, loaded, unloads>>
    /\ UNCHANGED <<caller, converter>>

\* the binding calls the token callback of a stream (lines 258-264)
OnToken(c) ==
    /\ caller = "idle"
    /\ microtasks = <<>>
    /\ c \in 1..Len(invocations)
    /\ invocations[c].op = "doStream"
    /\ invocations[c].at = "generating"
    /\ Len(invocations[c].parts) < 2 + MaxTokens
    /\ invocations' = [invocations EXCEPT ![c].parts = Append(@, Part("text-delta", c))]
    /\ microtasks' = <<User>>
    /\ UNCHANGED <<modelHandle, initPromise, loads, loaded, unloads>>
    /\ UNCHANGED <<caller, converter>>

\* the binding calls back generate or generateStream: with a result, or with
\* an error
GenerationSettles(c, ok) ==
    /\ caller = "idle"
    /\ microtasks = <<>>
    /\ c \in 1..Len(invocations)
    /\ invocations[c].at = "generating"
    /\ invocations' = [invocations EXCEPT
                         ![c].at = IF ok THEN "generated" ELSE "generate-threw",
                         ![c].generation = IF ok THEN "resolved" ELSE "rejected"]
    /\ microtasks' = << <<"call", c>> >>
    /\ UNCHANGED <<modelHandle, initPromise, loads, loaded, unloads>>
    /\ UNCHANGED <<caller, converter>>

\* doGenerate resumes after `await generate(...)`: it returns the result, or
\* is rejected (lines 198-219)
GenerateReturns ==
    /\ caller = "idle"
    /\ microtasks # <<>>
    /\ Head(microtasks)[1] = "call"
    /\ LET c == Head(microtasks)[2]
       IN  /\ invocations[c].at \in {"generated", "generate-threw"}
           /\ invocations[c].op = "doGenerate"
           /\ invocations' = [invocations EXCEPT
                                ![c].at = IF @ = "generated" THEN "returned" ELSE "rejected"]
    /\ microtasks' = Append(Tail(microtasks), User)
    /\ UNCHANGED <<modelHandle, initPromise, loads, loaded, unloads>>
    /\ UNCHANGED <<caller, converter>>

\* the catch block missing: after a failure error is enqueued, then finish
StreamClosesUncaught ==
    /\ caller = "idle"
    /\ microtasks # <<>>
    /\ Head(microtasks)[1] = "call"
    /\ LET c == Head(microtasks)[2]
       IN  /\ invocations[c].at \in {"generated", "generate-threw"}
           /\ invocations[c].op = "doStream"
           /\ invocations' = [invocations EXCEPT
                                ![c].at = "closed",
                                ![c].closed = TRUE,
                                ![c].parts =
                                   IF invocations[c].at = "generated"
                                   THEN @ \o <<Part("text-end", c), Part("finish", Null)>>
                                   ELSE @ \o <<Part("error", Null), Part("finish", Null)>>]
    /\ microtasks' = Append(Tail(microtasks), User)
    /\ UNCHANGED <<modelHandle, initPromise, loads, loaded, unloads>>
    /\ UNCHANGED <<caller, converter>>

\* start() resumes after `await generateStream(...)`: text-end, finish and
\* close, or in the catch block error and close (lines 267-287)
StreamCloses ==
    /\ caller = "idle"
    /\ microtasks # <<>>
    /\ Head(microtasks)[1] = "call"
    /\ LET c == Head(microtasks)[2]
       IN  /\ invocations[c].at \in {"generated", "generate-threw"}
           /\ invocations[c].op = "doStream"
           /\ invocations' = [invocations EXCEPT
                                ![c].at = "closed",
                                ![c].closed = TRUE,
                                ![c].parts =
                                   IF invocations[c].at = "generated"
                                   THEN @ \o <<Part("text-end", c), Part("finish", Null)>>
                                   ELSE Append(@, Part("error", Null))]
    /\ microtasks' = Append(Tail(microtasks), User)
    /\ UNCHANGED <<modelHandle, initPromise, loads, loaded, unloads>>
    /\ UNCHANGED <<caller, converter>>

\* the user's code starts to run in a task of its own (a timer, an event)
UserTask ==
    /\ caller = "idle"
    /\ microtasks = <<>>
    /\ caller' = "running"
    /\ UNCHANGED <<modelHandle, initPromise, loads, loaded, unloads, invocations, microtasks>>
    /\ UNCHANGED converter

\* the user's code resumes after the await of a promise that has settled
UserResumes ==
    /\ caller = "idle"
    /\ microtasks # <<>>
    /\ Head(microtasks) = User
    /\ caller' = "running"
    /\ microtasks' = Tail(microtasks)
    /\ UNCHANGED <<modelHandle, initPromise, loads, loaded, unloads, invocations>>
    /\ UNCHANGED converter

\* the user's code stops running: it returns, or awaits a promise that is
\* settled already (settled is TRUE) and is queued to resume
UserStops(settled) ==
    /\ caller = "running"
    /\ caller' = "idle"
    /\ microtasks' = IF settled THEN Append(microtasks, User) ELSE microtasks
    /\ UNCHANGED <<modelHandle, initPromise, loads, loaded, unloads, invocations>>
    /\ UNCHANGED converter

\* no schema is compiled while the instance is used
InitModel == InitGiven({BooleanSchema})

NextModel ==
    \/ \E op \in Generations : Generate(op)
    \/ Dispose
    \/ \E k \in 1..MaxInvocations, ok \in BOOLEAN : LoadSettles(k, ok)
    \/ LoadResumes
    \/ EnsureResumes
    \/ OwnLoadResumes
    \/ Rejects
    \/ DoGenerate
    \/ DoStream
    \/ \E c \in 1..MaxInvocations : OnToken(c)
    \/ \E c \in 1..MaxInvocations, ok \in BOOLEAN : GenerationSettles(c, ok)
    \/ GenerateReturns
    \/ StreamCloses
    \/ UserTask
    \/ UserResumes
    \/ \E settled \in BOOLEAN : UserStops(settled)

SpecModel == InitModel /\ [][NextModel]_vars

(***************************************************************************)
(* Object texts.  A text is written from a sequence of items, each a key   *)
(* or a comma: a key stands for the pair "key": value, the value being the *)
(* name of its rule, taken as a unit.                                      *)
(***************************************************************************)
ValueRules == {"boolean", "value"}

\* the declared property names of an object schema, in declaration order
Declared(s) == [i \in 1..Len(Members(Get(s, "properties"))) |-> Members(Get(s, "properties"))[i][1]]

RequiredOf(s) == { Members(Get(s, "required"))[i][2].v : i \in 1..Len(Members(Get(s, "required"))) }

NamesOf(seq) == { seq[i] : i \in 1..Len(seq) }

\* the rule that accepts the value of key in an instance of s
ValueRuleOf(s, key) ==
    IF key \in NamesOf(Declared(s)) \/ IsObject(Get(s, "additionalProperties"))
    THEN "boolean" ELSE "value"

RECURSIVE Flatten(_, _, _)
Flatten(seq, lo, hi) ==
    IF lo > hi THEN <<>> ELSE IF lo = hi THEN seq[lo]
    ELSE Flatten(seq, lo, (lo + hi) \div 2) \o Flatten(seq, (lo + hi) \div 2 + 1, hi)

\* the text { item item ... } of an instance of s
ObjectText(s, items) ==
    <<"{">>
    \o Flatten([i \in 1..Len(items) |->
                  IF items[i] = "," THEN <<",">>
                  ELSE <<"\"">> \o Symbols(items[i]) \o <<"\"", ":", ValueRuleOf(s, items[i])>>],
               1, Len(items))
    \o <<"}">>

\* the keys one after the other with one comma between consecutive ones
Separated(keys) ==
    [i \in 1..(IF Len(keys) = 0 THEN 0 ELSE 2 * Len(keys) - 1) |->
        IF i % 2 = 1 THEN keys[(i + 1) \div 2] ELSE ","]

\* the key sequences of at most n keys
KeySequences(keys, n) == UNION { [1..m -> keys] : m \in 0..n }

MaxKeys == 4

\* the keys tried on s: the declared ones and one that is not declared
KeysTried(s) == NamesOf(Declared(s)) \cup {"x"}

\* the ways of writing a key sequence that break the comma discipline
Misplaced(keys) ==
    { <<",">> \o Separated(keys), Separated(keys) \o <<",">> }
    \cup (IF Len(keys) < 2 THEN {}
          ELSE { <<keys[1], ",", ",">> \o Separated(Tail(keys)),
                 <<keys[1]>> \o Separated(Tail(keys)) })

\* whether the object rule of the grammar just emitted accepts the text
AcceptsObject(items) ==
    Accepts(Tokenised(rules), ValueRules, "root", ObjectText(schema, items))

\* C11: once the grammar of an object schema is emitted whose declared
\* properties are all required and that allows no additional property, the
\* only key sequence the root rule accepts is the declared keys, each once,
\* in declaration order, with one comma between consecutive pairs: any other
\* order, a missing, repeated or extra key and any misplaced comma is rejected.
C11_RequiredKeysInOrder ==
    (/\ pc = "done"
     /\ schema \in ObjectSchemas
     /\ RequiredOf(schema) = NamesOf(Declared(schema))
     /\ ~Truthy(Get(schema, "additionalProperties")))
    => \E g \in {Tokenised(rules)} :
          /\ \A keys \in KeySequences(KeysTried(schema), MaxKeys) :
                Accepts(g, ValueRules, "root", ObjectText(schema, Separated(keys)))
                <=> keys = Declared(schema)
          /\ \A keys \in KeySequences(KeysTried(schema), MaxKeys - 1) :
                \A items \in Misplaced(keys) :
                    ~Accepts(g, ValueRules, "root", ObjectText(schema, items))

\* an all-required object of three properties is compiled and its rule
\* accepts the declared order
C11_Witness ==
    /\ pc = "done"
    /\ schema = ObjectSchema(<<"b", "ab", "a">>, <<"b", "ab", "a">>, Undefined)
    /\ AcceptsObject(<<"b", ",", "ab", ",", "a">>)
    /\ ~AcceptsObject(<<"a", ",", "ab", ",", "b">>)

\* the declared names that are required, and those that are not, in order
RequiredKeys(s) == SelectSeq(Declared(s), LAMBDA k : k \in RequiredOf(s))
OptionalKeys(s) == SelectSeq(Declared(s), LAMBDA k : k \notin RequiredOf(s))

\* sub is seq with some of its elements left out
IsSubsequence(sub, seq) ==
    \E at \in [1..Len(sub) -> 1..Len(seq)] :
        /\ \A i \in 1..Len(sub) : sub[i] = seq[at[i]]
        /\ \A i \in 1..Len(sub), j \in 1..Len(sub) : i < j => at[i] < at[j]

\* keys is the required keys followed by some of the optional ones, in order
RequiredThenOptional(s, keys) ==
    /\ Len(keys) >= Len(RequiredKeys(s))
    /\ SubSeq(keys, 1, Len(RequiredKeys(s))) = RequiredKeys(s)
    /\ IsSubsequence(SubSeq(keys, Len(RequiredKeys(s)) + 1, Len(keys)), OptionalKeys(s))

\* C12: once the grammar of an object schema with required keys r1..rk and
\* optional keys o1..on (and no additional property) is emitted, the root rule
\* accepts a key sequence exactly when it is r1..rk followed by a subsequence
\* of o1..on, each key at most once, with one comma between consecutive pairs
\* and none leading or trailing, for k = 0 as for k > 0.
C12_RequiredThenOptionalSubsequence ==
    (/\ pc = "done"
     /\ schema \in ObjectSchemas
     /\ ~Truthy(Get(schema, "additionalProperties")))
    => \E g \in {Tokenised(rules)} :
          /\ \A keys \in KeySequences(KeysTried(schema), MaxKeys) :
                Accepts(g, ValueRules, "root", ObjectText(schema, Separated(keys)))
                <=> RequiredThenOptional(schema, keys)
          /\ \A keys \in KeySequences(KeysTried(schema), MaxKeys - 1) :
                \A items \in Misplaced(keys) :
                    ~Accepts(g, ValueRules, "root", ObjectText(schema, items))

\* keys is an accepted sequence of declared keys followed by keys that are
\* not declared
DeclaredThenAdditional(s, keys) ==
    \E n \in 0..Len(keys) :
        /\ RequiredThenOptional(s, SubSeq(keys, 1, n))
        /\ \A i \in (n + 1)..Len(keys) : keys[i] \notin NamesOf(Declared(s))

\* C13: once the grammar of an object schema is emitted, if
\* additionalProperties is absent or false the root rule accepts no key but
\* the declared ones; if it is true or a schema the rule accepts the declared
\* keys followed by zero or more additional pairs, and no key it accepts as
\* an additional one is the name of a declared property.
C13_AdditionalKeysAfterDeclared ==
    (pc = "done" /\ schema \in ObjectSchemas)
    => \E g \in {Tokenised(rules)} :
          \A keys \in KeySequences(KeysTried(schema), MaxKeys) :
              IF Truthy(Get(schema, "additionalProperties"))
              THEN Accepts(g, ValueRules, "root", ObjectText(schema, Separated(keys)))
                   <=> DeclaredThenAdditional(schema, keys)
              ELSE Accepts(g, ValueRules, "root", ObjectText(schema, Separated(keys)))
                   => NamesOf(keys) \subseteq NamesOf(Declared(schema))

MaxText == 3

\* the strings of at most n characters a, b, c
Texts(n) == { Concat(w, 1, Len(w)) : w \in UNION { [1..m -> {"a", "b", "c"}] : m \in 0..n } }

\* C14: once the grammar of an object with declared names S and additional
\* properties is emitted, the rule of the additional keys (the fragment
\* _notStrings emits for S) accepts the quoted string x exactly when x is
\* not in S: proper prefixes and extensions of a name of S are accepted.
C14_AcceptsAllButExcluded ==
    (pc = "done" /\ schema \in ExclusionSchemas)
    => \E g \in {Tokenised(rules)} :
          \A x \in Texts(MaxText) :
              Accepts(g, {}, "additional-k", <<"\"">> \o Symbols(x) \o <<"\"">>)
              <=> x \notin NamesOf(Declared(schema))

(***************************************************************************)
(* Integer texts.                                                          *)
(***************************************************************************)
\* the lower and the upper bound an integer schema asks for, as visit
\* normalises them; a missing bound is Undefined
LowerBound(s) ==
    IF Has(s, "minimum") THEN Get(s, "minimum")
    ELSE IF Has(s, "exclusiveMinimum") THEN JNum(Get(s, "exclusiveMinimum").v + 1)
    ELSE Undefined

UpperBound(s) ==
    IF Has(s, "maximum") THEN Get(s, "maximum")
    ELSE IF Has(s, "exclusiveMaximum") THEN JNum(Get(s, "exclusiveMaximum").v - 1)
    ELSE Undefined

\* whether the root rule of the grammar g accepts the decimal string of n
AcceptsInteger(g, n) == Accepts(g, {}, "root", Symbols(ToString(n)))

\* C15: once the grammar of an integer schema with bounds min <= max
\* (exclusive bounds normalised to min = exclusiveMinimum + 1 and max =
\* exclusiveMaximum - 1) is emitted, the root rule accepts the decimal string
\* of every n in [min, max] and rejects those of min - 1 and max + 1.
C15_AcceptsRangeRejectsNeighbours ==
    (/\ pc = "done"
     /\ schema \in RangeSchemas
     /\ IsDefined(LowerBound(schema)) /\ IsDefined(UpperBound(schema))
     /\ LowerBound(schema).v <= UpperBound(schema).v)
    => \E g \in {Tokenised(rules)} :
          /\ \A n \in LowerBound(schema).v .. UpperBound(schema).v : AcceptsInteger(g, n)
          /\ ~AcceptsInteger(g, LowerBound(schema).v - 1)
          /\ ~AcceptsInteger(g, UpperBound(schema).v + 1)

\* the range -12 < n <= 130, negative to three digits, is compiled: its rule
\* accepts both ends and rejects their neighbours
C15_Witness ==
    /\ pc = "done"
    /\ schema = TwoSided("exclusiveMinimum", -12, "maximum", 130)
    /\ \E g \in {Tokenised(rules)} :
          /\ AcceptsInteger(g, -11) /\ AcceptsInteger(g, 130)
          /\ ~AcceptsInteger(g, -12) /\ ~AcceptsInteger(g, 131)

DigitChars == { CharAt(Digits, k) : k \in 1..Len(Digits) }

\* the digit strings of n digits
DigitStrings(n) == { Concat(w, 1, n) : w \in [1..n -> DigitChars] }

MaxDigits == 17

\* digit strings that start with a zero and go on: all those of two and of
\* three digits, and longer ones of zeros, of nines and of a one at the end
ZeroLed ==
    { "0" \o d : d \in DigitStrings(1) \cup DigitStrings(2) }
    \cup UNION { { "0" \o Repeat("0", n), "0" \o Repeat("9", n), Repeat("0", n) \o "1" }
                 : n \in 3..MaxDigits }

\* C16: once the grammar of an integer schema with bounds is emitted,
\* whatever the bounds, the root rule accepts no digit string that has a
\* leading zero and more digits, neither as it is nor after a "-".
C16_NoLeadingZero ==
    (pc = "done" /\ schema \in RangeSchemas)
    => \E g \in {Tokenised(rules)} :
          \A t \in ZeroLed :
              /\ ~Accepts(g, {}, "root", Symbols(t))
              /\ ~Accepts(g, {}, "root", Symbols("-" \o t))

\* whether n is inside the range the schema asks for
InRange(s, n) ==
    /\ IsDefined(LowerBound(s)) => LowerBound(s).v <= n
    /\ IsDefined(UpperBound(s)) => n <= UpperBound(s).v

MaxTried == 140

\* C17: once the grammar of an integer schema with bounds is emitted, the
\* root rule accepts the decimal string of an integer exactly when the integer
\* is inside the range: with a minimum only nothing below it, with a maximum
\* only nothing above it, and on the open side every integer of 16 digits
\* and none of 17.
C17_AcceptsExactlyTheRange ==
    (/\ pc = "done"
     /\ schema \in RangeSchemas
     /\ IsDefined(LowerBound(schema)) /\ IsDefined(UpperBound(schema))
        => LowerBound(schema).v <= UpperBound(schema).v)
    => \E g \in {Tokenised(rules)} :
          /\ \A n \in -MaxTried..MaxTried : AcceptsInteger(g, n) <=> InRange(schema, n)
          /\ \A sign \in {"", "-"} :
                /\ Accepts(g, {}, "root", Symbols(sign \o Repeat("9", 16)))
                   <=> ~IsDefined(IF sign = "" THEN UpperBound(schema) ELSE LowerBound(schema))
                /\ ~Accepts(g, {}, "root", Symbols(sign \o "1" \o Repeat("0", 16)))

(***************************************************************************)
(* Array texts.  A text is written from a sequence of parts, each an item  *)
(* (the name of the items rule, taken as a unit) or a comma.               *)
(***************************************************************************)
ItemRules == {"boolean", "string"}

\* the rule that accepts an item of an instance of s
ItemRuleOf(s) == Get(Get(s, "items"), "type").v

ArrayText(parts) == <<"[">> \o parts \o <<"]">>

\* k items of s
ItemsOf(s, k) == [i \in 1..k |-> ItemRuleOf(s)]

MaxItemsTried == 5

\* C18: once the grammar of an array schema with one items schema, minItems
\* m and maxItems M (0 <= m <= M, either may be absent) is emitted, the root
\* rule accepts a bracketed sequence of k items exactly when m <= k <= M (k
\* has no upper limit when maxItems is absent), with one comma between
\* consecutive items and none leading or trailing.
C18_ItemCountWithinBounds ==
    (pc = "done" /\ schema \in ArraySchemas)
    => \E g \in {Tokenised(rules)} :
          \A k \in 0..MaxItemsTried :
              /\ Accepts(g, ItemRules, "root", ArrayText(Separated(ItemsOf(schema, k))))
                 <=> /\ NumberOrZero(schema, "minItems") <= k
                     /\ IsDefined(Get(schema, "maxItems")) => k <= Get(schema, "maxItems").v
              /\ \A parts \in Misplaced(ItemsOf(schema, k)) :
                    ~Accepts(g, ItemRules, "root", ArrayText(parts))

\* an array of one to three strings is compiled: its rule accepts one and
\* three items and rejects none and four
C18_Witness ==
    /\ pc = "done"
    /\ schema = ArraySchema(JStr("array"), StringSchema, JNum(1), JNum(3))
    /\ \E g \in {Tokenised(rules)} :
          /\ Accepts(g, ItemRules, "root", <<"[", "string", "]">>)
          /\ Accepts(g, ItemRules, "root", <<"[", "string", ",", "string", ",", "string", "]">>)
          /\ ~Accepts(g, ItemRules, "root", <<"[", "]">>)
          /\ ~Accepts(g, ItemRules, "root",
                      <<"[", "string", ",", "string", ",", "string", ",", "string", "]">>)

(***************************************************************************)
(* Pattern errors (the compile specification).                             *)
(***************************************************************************)
\* the pattern does not both start with ^ and end with $
Unanchored(p) == p = "" \/ CharAt(p, 1) # "^" \/ CharAt(p, Len(p)) # "$"

\* the visits that went to the pattern translation
PatternVisits == { i \in DOMAIN visits : visits[i].branch = "pattern" }

\* C19: whenever visit hands a pattern to the pattern translation that does
\* not both start with ^ and end with $, the translation raises the anchoring
\* error and no rule is added from that visit on.
C19_UnanchoredPatternRaises ==
    \A i \in PatternVisits :
        Unanchored(Get(visits[i].schema, "pattern").v)
        => /\ err = "Pattern must start with \"^\" and end with \"$\""
           /\ pc = "failed"
           /\ visits[i].key = ""
           /\ Len(writes) < visits[i].first

\* the pattern ab$ of a property, which ends with $ but does not start with
\* ^, has been handed to the translation
C19_Witness ==
    \E i \in PatternVisits :
        /\ Get(visits[i].schema, "pattern").v = "ab$"
        /\ visits[i].depth = 2
        /\ pc = "failed"

\* anchored patterns that are malformed, and what is wrong with each
Malformed ==
    ("^(?:a)$" :> "(?") @@
    ("^(a$" :> "unterminated (") @@
    ("^a(b|c$" :> "unterminated (") @@
    ("^[a$" :> "unterminated [") @@
    ("^a{1$" :> "unterminated {") @@
    ("^a)$" :> ") with no matching (")

\* C20: whenever visit hands an anchored pattern to the pattern translation
\* that contains (?, an unterminated (, [ or { group, or a ) with no matching
\* (, the translation raises an error and returns no fragment: the visit
\* yields no rule.
C20_MalformedPatternRaises ==
    \A i \in PatternVisits :
        Get(visits[i].schema, "pattern").v \in DOMAIN Malformed
        => /\ err # NoError
           /\ pc = "failed"
           /\ visits[i].key = ""

(***************************************************************************)
(* The failures of convertJsonSchemaToGrammar.                             *)
(***************************************************************************)
\* how the message of each documented error begins: the throw statements of
\* resolveRefs, _visitPattern, visit and _addPrimitive
DocumentedMessages ==
    { "Fetching remote schemas is not supported in this implementation",
      "Unsupported ref ",
      "Error resolving ref ",
      "Pattern must start with \"^\" and end with \"$\"",
      "Unsupported pattern syntax ",
      "Invalid quantifier ",
      "Unbalanced parentheses",
      "Unbalanced square brackets",
      "Unbalanced curly brackets",
      "Unrecognized schema: ",
      "Rule " }

IsDocumented(message) ==
    \E m \in DocumentedMessages :
        Len(message) >= Len(m) /\ SubSeq(message, 1, Len(m)) = m

\* C21: a call of convertJsonSchemaToGrammar that fails raises one of the six
\* documented errors (unsupported reference, broken reference, unsupported
\* pattern syntax, unbalanced pattern delimiters, unrecognized schema shape,
\* catalog integrity) and returns no grammar text.
C21_OnlyDocumentedFailures ==
    pc = "failed" => IsDocumented(err) /\ ret = ""

(***************************************************************************)
(* The family of the objects compiled with a priority map: new             *)
(* SchemaConverter({propOrder}), the properties declared in one of two     *)
(* orders, any of them required, any of them given a priority.             *)
(***************************************************************************)
PrioritisedNames == {"a", "b", "c"}

Priorities == {0, 1}

Declarations == {<<"a", "b", "c">>, <<"c", "a", "b">>}

OrderedSchemas ==
    { ObjectSchema(c[1], SelectSeq(c[1], LAMBDA k : k \in c[2]), Undefined) :
        c \in Declarations \X SUBSET PrioritisedNames }

\* the options.propOrder objects: a priority for some of the names
PropOrders ==
    UNION { [named -> Priorities] : named \in SUBSET PrioritisedNames }

\* const converter = new SchemaConverter({propOrder})
InitOrdered ==
    /\ schema \in OrderedSchemas
    /\ rules = ("space" :> SPACE_RULE)
    /\ refs = <<>>
    /\ refsBeingResolved = {}
    /\ propOrder \in PropOrders
    /\ dotall = FALSE
    /\ pc = "given"
    /\ call = <<>>
    /\ ret = ""
    /\ err = NoError
    /\ grammar = <<>>
    /\ writes = <<>>
    /\ visits = <<>>
    /\ ncalls = 0
    /\ Constructed

SpecOrdered == InitOrdered /\ [][NextGiven]_vars

\* a comes before b by priority: the lower priority first, a key with no
\* priority after every key that has one, declaration order between equals
Precedes(s, order, a, b) ==
    LET first == FindIndex(Members(Get(s, "properties")), a)
                 < FindIndex(Members(Get(s, "properties")), b)
    IN  IF a \in DOMAIN order /\ b \in DOMAIN order
        THEN order[a] < order[b] \/ (order[a] = order[b] /\ first)
        ELSE IF a \in DOMAIN order THEN TRUE
        ELSE IF b \in DOMAIN order THEN FALSE
        ELSE first

\* the arrangements of all the declared keys, each once
Arrangements(s) ==
    { keys \in [1..Len(Declared(s)) -> NamesOf(Declared(s))] :
        \A i \in 1..Len(keys), j \in 1..Len(keys) : i # j => keys[i] # keys[j] }

Generating ==
    { c \in 1..Len(invocations) : invocations[c].generation # "none" }

\* C23: as long as dispose has not been called on the instance, whatever the
\* interleaving of its doGenerate and doStream calls, loadModel has been
\* called at most once and not before the first of them, and every call
\* that generates does so with the handle that load returned.
C23_LoadsOnceAndSharesHandle ==
    (\A c \in 1..Len(invocations) : invocations[c].op # "dispose")
    => /\ Len(loads) <= 1
       /\ invocations = <<>> => loads = <<>>
       /\ \A c \in Generating :
             /\ Len(loads) = 1
             /\ loads[1].native = "resolved"
             /\ invocations[c].handle = loads[1].handle

\* three calls made while nothing is loaded, a stream among them, all
\* generating with the handle of the one load
C23_Witness ==
    /\ Len(invocations) = 3
    /\ \A c \in 1..3 : invocations[c].at = "generating" /\ invocations[c].awaits = 1
    /\ \E c \in 1..3 : invocations[c].op = "doStream"
    /\ Len(loads) = 1

\* the handles passed to unloadModel so far
Unloaded == { unloads[i] : i \in 1..Len(unloads) }

\* every loadModel call has settled and its async function has finished
LoadsSettled == \A k \in 1..Len(loads) : loads[k].promise # "pending"

\* C24: whatever the interleaving of generation and dispose calls,
\* unloadModel is called at most once for each handle, and when the last call
\* made on the instance is a dispose that has returned, every handle the
\* instance has loaded has been unloaded, the handle of a load that was in
\* flight when dispose was called included.
C24_EveryHandleUnloadedOnce ==
    /\ \A i \in 1..Len(unloads), j \in 1..Len(unloads) : i # j => unloads[i] # unloads[j]
    /\ (/\ invocations # <<>>
        /\ invocations[Len(invocations)].op = "dispose"
        /\ LoadsSettled)
       => \A k \in 1..Len(loads) :
             loads[k].native = "resolved" => loads[k].handle \in Unloaded

\* the places of the parts of the given types in a stream
PartsOf(parts, types) == { i \in 1..Len(parts) : parts[i].type \in types }

Terminal == {"finish", "error"}

\* C25: in every stream doStream has returned, the first part is
\* stream-start and the second text-start; every text-delta comes after
\* text-start, before any text-end, and carries the id of text-start; a
\* terminal part (finish, error) is enqueued only as the last part and with
\* it the stream is closed; a closed stream ends with exactly one terminal
\* part, finish when the generation succeeded and error when it failed.
C25_StreamPartsInOrder ==
    \A c \in 1..Len(invocations) :
        \E parts \in {invocations[c].parts} :
            (invocations[c].op = "doStream" /\ invocations[c].generation # "none")
            => /\ Len(parts) >= 2
               /\ parts[1].type = "stream-start"
               /\ parts[2].type = "text-start"
               /\ PartsOf(parts, {"stream-start"}) = {1}
               /\ PartsOf(parts, {"text-start"}) = {2}
               /\ \A i \in PartsOf(parts, {"text-delta"}) :
                     /\ i > 2
                     /\ parts[i].id = parts[2].id
                     /\ \A j \in PartsOf(parts, {"text-end"}) : i < j
               /\ \A i \in PartsOf(parts, {"text-end"}) : parts[i].id = parts[2].id
               /\ PartsOf(parts, Terminal) \subseteq {Len(parts)}
               /\ invocations[c].closed <=> PartsOf(parts, Terminal) # {}
               /\ invocations[c].closed
                  => /\ invocations[c].generation \in {"resolved", "rejected"}
                     /\ parts[Len(parts)].type =
                           IF invocations[c].generation = "resolved" THEN "finish" ELSE "error"

\* two streams of one instance, both closed after a text-delta: one with
\* finish, the other with error
C25_Witness ==
    \E c \in 1..Len(invocations), d \in 1..Len(invocations) :
        /\ invocations[c].closed /\ invocations[d].closed
        /\ PartsOf(invocations[c].parts, {"text-delta"}) # {}
        /\ PartsOf(invocations[d].parts, {"text-delta"}) # {}
        /\ PartsOf(invocations[c].parts, {"finish"}) # {}
        /\ PartsOf(invocations[d].parts, {"error"}) # {}

(***************************************************************************)
(* The family of the allOf schemas: two branches, each an object schema of *)
(* one property that lists it in `required` or not, given as it is or      *)
(* inside an anyOf.                                                        *)
(***************************************************************************)
BranchNames == {"a", "b"}

\* {type: "object", properties: {name: {type: "boolean"}}, required: [...]}
Branch(name, isRequired) ==
    ObjectSchema(<<name>>, IF isRequired THEN <<name>> ELSE <<>>, Undefined)

\* {anyOf: [branch]}
InAnyOf(branch) == JObj(<< <<"anyOf", JArr(<<branch>>)>> >>)

Branches ==
    { Branch(c[1], c[2]) : c \in BranchNames \X BOOLEAN }
    \cup { InAnyOf(Branch(c[1], c[2])) : c \in BranchNames \X BOOLEAN }

\* {allOf: [first, second]}
AllOf(first, second) == JObj(<< <<"allOf", JArr(<<first, second>>)>> >>)

AllOfSchemas == { AllOf(c[1], c[2]) : c \in Branches \X Branches }

SpecAllOf == InitGiven(AllOfSchemas) /\ [][NextGiven]_vars

\* the object schema inside a branch
ObjectOf(branch) ==
    IF Has(branch, "anyOf") THEN Get(branch, "anyOf").v[1] ELSE branch

\* the object schemas of the branches of an allOf schema, in order
BranchObjects(s) ==
    [i \in 1..Len(Get(s, "allOf").v) |-> ObjectOf(Get(s, "allOf").v[i])]

\* the property names of the branches, in order
Merged(s) ==
    Flatten([i \in 1..Len(BranchObjects(s)) |-> Declared(BranchObjects(s)[i])],
            1, Len(BranchObjects(s)))

\* whether a branch that declares key lists it in `required`
ListedRequired(s, key) ==
    \E i \in 1..Len(BranchObjects(s)) :
        /\ key \in NamesOf(Declared(BranchObjects(s)[i]))
        /\ key \in RequiredOf(BranchObjects(s)[i])

\* the accepted key sequences of the root rule, among those of the merged
\* properties
AcceptedKeys(s) ==
    LET g == Tokenised(rules)
        merged == ObjectSchema(Merged(s), <<>>, Undefined)
    IN  { keys \in KeySequences(NamesOf(Merged(s)), Len(Merged(s))) :
            Accepts(g, ValueRules, "root", ObjectText(merged, Separated(keys))) }

\* C26: once the grammar of an allOf schema whose branches declare different
\* properties is emitted, the root rule insists on a key (accepts no object
\* without it) only if the branch that declares the key lists it in
\* `required`: a key that no branch lists is optional.
C26_RequiredOnlyIfBranchRequires ==
    (/\ pc = "done"
     /\ schema \in AllOfSchemas
     /\ Len(Merged(schema)) = Cardinality(NamesOf(Merged(schema))))
    => \E accepted \in {AcceptedKeys(schema)} :
          /\ accepted # {}
          /\ \A key \in NamesOf(Merged(schema)) :
                (\A keys \in accepted : key \in NamesOf(keys))
                => ListedRequired(schema, key)

(***************************************************************************)
(* References between the rules of an emitted grammar.                     *)
(***************************************************************************)
RECURSIVE ReferencedNames(_, _)
\* the rule names a rule body refers to, from position i on
ReferencedNames(body, i) ==
    IF i > Len(body) THEN {}
    ELSE IF CharAt(body, i) \in {" ", "\n", "\t"} THEN ReferencedNames(body, i + 1)
    ELSE UNION { (IF t.k = "name" THEN {SubSeq(body, t.from, t.to)} ELSE {})
                 \cup ReferencedNames(body, t.n)
                 : t \in {TokenAt(body, i)} }

\* C27: when convertJsonSchemaToGrammar has returned a grammar, every rule
\* name that occurs in the body of a rule is the name of a rule of the
\* table, the name given to a $ref met again while it was being resolved
\* included.
C27_NoDanglingReference ==
    pc = "done" => \A name \in DOMAIN rules :
                      ReferencedNames(rules[name], 1) \subseteq DOMAIN rules

\* a schema whose definition refers to itself is compiled: the rule of the
\* definition is referred to from a rule made while it was being resolved
C27_Witness ==
    /\ pc = "done"
    /\ schema = WithDefs(RefTo("#/$defs/node"), << <<"node", NodeSchema>> >>)
    /\ "ref-defs-node" \in DOMAIN rules
    /\ \E name \in DOMAIN rules :
          name # "ref-defs-node" /\ "ref-defs-node" \in ReferencedNames(rules[name], 1)
    /\ \E i \in 1..Len(visits) : visits[i].depth > 2

(***************************************************************************)
(* The family of the schemas with references whose rule names meet: two    *)
(* properties that refer to two definitions, or a property named as the    *)
(* rule of a reference and a property that makes the reference.  Every     *)
(* definition is {enum: [text]}.                                           *)
(***************************************************************************)
DefinitionNames == {"a", "b", "a.b", "a_b"}

EnumTexts == {"p", "q"}

\* {enum: [text]}
EnumSchema(text) == JObj(<< <<"enum", JArr(<<JStr(text)>>)>> >>)

\* {properties: {x: {$ref: "#/$defs/n1"}, y: {$ref: "#/$defs/n2"}},
\*  $defs: {n1: {enum: [t1]}, n2: {enum: [t2]}}}
TwoReferences(n1, t1, n2, t2) ==
    JObj(<< <<"properties", JObj(<< <<"x", RefTo("#/$defs/" \o n1)>>,
                                    <<"y", RefTo("#/$defs/" \o n2)>> >>)>>,
            <<"$defs", JObj(<< <<n1, EnumSchema(t1)>>, <<n2, EnumSchema(t2)>> >>)>> >>)

\* {properties: {"ref-defs-a": {enum: [t1]}, x: {$ref: "#/$defs/a"}},
\*  $defs: {a: {enum: [t2]}}}
PropertyAndReference(t1, t2) ==
    JObj(<< <<"properties", JObj(<< <<"ref-defs-a", EnumSchema(t1)>>,
                                    <<"x", RefTo("#/$defs/a")>> >>)>>,
            <<"$defs", JObj(<< <<"a", EnumSchema(t2)>> >>)>> >>)

AliasSchemas ==
    { TwoReferences(c[1], c[2], c[3], c[4]) :
        c \in { d \in DefinitionNames \X EnumTexts \X DefinitionNames \X EnumTexts :
                  d[1] # d[3] } }
    \cup { PropertyAndReference(c[1], c[2]) : c \in EnumTexts \X EnumTexts }

SpecAlias == InitGiven(AliasSchemas) /\ [][NextGiven]_vars

\* the schema a property stands for: the definition it refers to, or itself
TargetOf(s, property) ==
    IF Has(property, "$ref")
    THEN Get(Get(s, "$defs"), SubSeq(Get(property, "$ref").v, 9, Len(Get(property, "$ref").v)))
    ELSE property

\* the text of the one value {enum: [text]} allows
EnumTextOf(target) == Get(target, "enum").v[1].v

\* C28: once the grammar of a schema with references is emitted, the rule
\* of each property accepts the value of its own target and no other: the
\* alias of a reference points to the rule compiled from the target of that
\* reference, also when two pointers differ only in characters the rule name
\* rewrites, or when a property's rule has the name of the reference's rule.
C28_AliasPointsToOwnTarget ==
    (pc = "done" /\ schema \in AliasSchemas)
    => \E g \in {Tokenised(rules)} :
          \A i \in 1..Len(Members(Get(schema, "properties"))) :
             \E member \in {Members(Get(schema, "properties"))[i]} :
                \A text \in EnumTexts :
                    Accepts(g, {}, member[1], <<"\"">> \o Symbols(text) \o <<"\"">>)
                    <=> text = EnumTextOf(TargetOf(schema, member[2]))

\* C29: once the grammar of an allOf schema is emitted, each property name
\* contributes one key/value pair to the object rule: the root rule accepts
\* some object, and no object it accepts has the same key twice, also when
\* the name is declared in more than one branch.
C29_OnePairPerPropertyName ==
    (pc = "done" /\ schema \in AllOfSchemas)
    => \E accepted \in {AcceptedKeys(schema)} :
          /\ accepted # {}
          /\ \A keys \in accepted :
                \A i \in 1..Len(keys), j \in 1..Len(keys) : i # j => keys[i] # keys[j]

\* the last generation call made on the instance
LastGeneration ==
    CHOOSE c \in 1..Len(invocations) :
        /\ invocations[c].op \in Generations
        /\ \A d \in (c + 1)..Len(invocations) : invocations[d].op \notin Generations

\* the last generation call made has failed because the loadModel it waited
\* for was rejected
FailedOnLoad ==
    /\ \E c \in 1..Len(invocations) : invocations[c].op \in Generations
    /\ invocations[LastGeneration].at = "rejected"
    /\ invocations[LastGeneration].generation = "none"
    /\ loads[invocations[LastGeneration].awaits].promise = "rejected"

\* C30: when a generation call has failed because loadModel was rejected,
\* the next doGenerate or doStream call on the instance calls loadModel
\* again; and a call whose own load succeeds is not rejected for the load.
C30_FailedLoadIsRetried ==
    /\ [][(/\ FailedOnLoad
           /\ Len(invocations') = Len(invocations) + 1
           /\ invocations'[Len(invocations')].op \in Generations)
          => Len(loads') = Len(loads) + 1]_vars
    /\ [](\A c \in 1..Len(invocations) :
             (invocations[c].at \in {"ensure-threw", "rejected"}
              /\ invocations[c].generation = "none")
             => loads[invocations[c].awaits].promise = "rejected")

====
